---- MODULE Spec2Model ----
(***************************************************************************)
(* Voice gateway: the session orchestrator (src/src/index.ts, the variant  *)
(* with the Cobra voice-activity gate), the voice-activity gate            *)
(* (CobraVAD), the recognizer adapter (CheetahSTT), the wake-word adapter  *)
(* (PorcupineWakeWord) and the dialogue client (SillyTavernWsClient).      *)
(*                                                                         *)
(* One action is one run-to-completion step of the JavaScript event loop:  *)
(* a macrotask (frame read, socket message, timer, socket close) together  *)
(* with the synchronous code it runs, or the continuation of an awaited    *)
(* promise.  Strings are sequences of characters.                          *)
(***************************************************************************)
EXTENDS Integers, Sequences, FiniteSets, TLC

VARIABLES
  state,                \* index.ts:237
  targetCharacter,      \* index.ts:238
  transcriptBuffer,     \* index.ts:239
  speaking,             \* CobraVAD.speaking
  speechStartTime,      \* CobraVAD.speechStartTime
  silenceStartTime,     \* CobraVAD.silenceStartTime
  now,                  \* Date.now() as the gate read it last, counted from the
                        \* wake detection (the gate keeps no older time stamp)
  frames,               \* frames handled since the last wake detection
  wsOpen,               \* ws.readyState = OPEN
  connected,            \* SillyTavernWsClient.connected
  headlessReady,        \* SillyTavernWsClient.headlessReady
  currentCharacter,     \* SillyTavernWsClient.currentCharacter
  messageResolvers,     \* keys of SillyTavernWsClient.messageResolvers
  lastCharacter,        \* the row "last_character" of the state table
  net,                  \* messages the backend has sent, not yet emitted
  backend,              \* the dialogue backend (environment)
  pc,                   \* where the running processUserInput is suspended
  pendingMsg,           \* the message sendMessage's promise resolved with
  responseChunks,       \* index.ts:307
  text,                 \* the parameter of processUserInput, until it is sent
  trace,                \* history: the events of the current turn
  sentText,             \* history: the increments the backend sent this turn, joined
  errDelivered,         \* history: an "error" reply of this turn was emitted
  activeTurns,          \* history: processUserInput entered, finally not run
  turns,                \* history: captures started while the socket was open
  ev,                   \* the handler that ran in the last step, and its inputs
  wire,                 \* what the last step asked of the backend or synthesizer
  boot,                 \* where main() is between process start and its control loop
  bootEnv,              \* the configuration of this run: engine, credential, names
  bootLog,              \* history: what main() has started in this run, in order
  lastWritten,          \* history: the last argument of setLastCharacter, if any
  vadConfig,            \* CobraVAD.config: the two durations (index.ts:226-231)
  detector,             \* WakewordDetector: melBuffer and embeddingBuffer
  pipeHist,             \* history: calls made, mel frames, embeddings and scores so far
  result,               \* what the last processAudioChunk call gave its caller
  audioBuffer,          \* the live tester's audioBuffer: samples not yet in a chunk
  inflight,             \* the calls of processAudioChunk not yet settled, oldest first
  waits,                \* the calls of waitForMessage: promise, deadline, resolver
  oww,                  \* OpenWakeWord: subprocess, running, audioBuffer, bytes written
  handles               \* PorcupineWakeWord, CheetahSTT, PvRecorderInput: handle, running

sessionVars == <<state, targetCharacter, transcriptBuffer>>
vadVars == <<speaking, speechStartTime, silenceStartTime>>
clientVars == <<wsOpen, connected, headlessReady, currentCharacter, messageResolvers,
                lastCharacter>>
turnVars == <<pc, pendingMsg, responseChunks, text>>
histVars == <<trace, sentText, errDelivered, activeTurns, turns>>
bootVars == <<boot, bootEnv, bootLog, lastWritten, vadConfig>>
testerVars == <<audioBuffer, inflight>>
pipeVars == <<detector, pipeHist, result, testerVars, waits, oww, handles>>
vars == <<sessionVars, vadVars, now, frames, clientVars, net, backend, turnVars,
          histVars, ev, wire, bootVars, pipeVars>>

----------------------------------------------------------------------------
(* Bounds of the model *)

MaxFrames == 3    \* frames handled per capture
MaxTurns == 1     \* captures started on an open socket per run
MaxLen == 1       \* characters in the transcript accumulator
MaxChunks == 2    \* increments the backend sends per turn
MaxCalls == 41    \* processAudioChunk calls on one detector
MaxRaised == 1    \* processAudioChunk calls that reject
MaxChunksFed == 3 \* chunks the live tester cuts from its audioBuffer

(* Program constants *)

VoiceThreshold == 70         \* voiceThreshold 0.7, in percent
SilenceThreshold == 30       \* silenceThreshold 0.3, in percent
SilenceDurationMs == 400
MinSpeechDurationMs == 200

MEL_FRAMES_PER_CHUNK == 5
MEL_WINDOW_SIZE == 76
MEL_STRIDE == 8
EMBEDDING_WINDOW_SIZE == 16
ConnectTimeoutMs == 30000
CheckReadyMs == 100
WaitTimeoutMs == 10000
WaitStepMs == 5000            \* the grain of the clock while a wait is pending
CHUNK_SAMPLES == 1280
QuantumSamples == 128       \* the samples of one message of the audio worklet
DefaultThreshold == 50       \* options.threshold ?? 0.5, in percent
NaN == 0 - 1                 \* the value NaN (every score is 0 or more)

\* the durations main() constructs the gate with
MainConfig ==
  [silenceDurationMs |-> SilenceDurationMs, minSpeechDurationMs |-> MinSpeechDurationMs]

----------------------------------------------------------------------------
(* Input domains *)

Characters == {"Luna", "Aria"}
NoChar == "<null>"
Probabilities == {10, 50, 90}       \* one sample per hysteresis region, percent
FrameGaps == {400}             \* milliseconds between two gate samples
Chars == {"a", " "}
Words == {<<>>} \cup {<<c>> : c \in Chars}   \* what one recognizer call returns
ChunkTexts == {<<>>, <<"x">>}

LISTENING_FOR_WAKE_WORD == "LISTENING_FOR_WAKE_WORD"
LISTENING_FOR_SPEECH == "LISTENING_FOR_SPEECH"
PROCESSING == "PROCESSING"
SPEAKING == "SPEAKING"

NoMsg == [type |-> "none", character |-> "<null>", text |-> <<>>]

----------------------------------------------------------------------------
(* Pure functions *)

RECURSIVE TrimStart(_)
TrimStart(s) == IF s # <<>> /\ Head(s) = " " THEN TrimStart(Tail(s)) ELSE s

RECURSIVE TrimEnd(_)
TrimEnd(s) ==
  IF s # <<>> /\ s[Len(s)] = " " THEN TrimEnd(SubSeq(s, 1, Len(s) - 1)) ELSE s

\* String.prototype.trim
Trim(s) == TrimEnd(TrimStart(s))

RECURSIVE Join(_)
\* responseChunks.join("")
Join(chunks) == IF chunks = <<>> THEN <<>> ELSE Head(chunks) \o Join(Tail(chunks))

Msg(type, character, txt) == [type |-> type, character |-> character, text |-> txt]

\* the record of the last step: handler, gate result, accumulator after the
\* recognizer ran, whether flush was called and what it returned
Last(s) == s[Len(s)]
Count(s, e) == Cardinality({i \in 1..Len(s) : s[i] = e})

Ev(h, fin, acc, flushed, fl) ==
  [h |-> h, fin |-> fin, acc |-> acc, flushed |-> flushed, flush |-> fl]
Quiet == Ev("-", FALSE, <<>>, FALSE, <<>>)

Req(req, name, txt) == [req |-> req, name |-> name, text |-> txt]
NoReq == Req("none", "", <<>>)

\* melBuffer = [], embeddingBuffer = [], lastScore = 0, threshold 0.5 (scores and
\* thresholds in percent); a mel frame is its arrival number
NewDetector ==
  [melBuffer |-> <<>>, embeddingBuffer |-> <<>>, lastScore |-> 0,
   threshold |-> DefaultThreshold]

\* nothing processed yet: the counts, the embeddings emitted and the windows scored
NoCalls ==
  [calls |-> 0, melFrames |-> 0, embeddings |-> 0, scores |-> 0, emitted |-> <<>>,
   scored |-> <<>>, raised |-> 0]

\* no call of waitForMessage yet, no resolver in the map
NoWaits == [calls |-> <<>>, owner |-> 0, handled |-> 0]

\* OpenWakeWord after its constructor: no subprocess, not running, audioBuffer
\* empty; writes, accepted, fed and last record what processAudio was given and
\* what it wrote
NoProcess ==
  [process |-> FALSE, running |-> FALSE, audioBuffer |-> <<>>, writes |-> <<>>,
   accepted |-> <<>>, fed |-> 0, last |-> "none"]

\* the three engines of one kind of lifecycle
Components == {"PorcupineWakeWord", "CheetahSTT", "PvRecorderInput"}

\* each of them after its constructor: no handle (null), running = false; made
\* counts the handles created, stopped tells stop() was called on the present
\* handle, invoked and delivered count the engine calls and the callbacks,
\* awaiting counts the read loops at their await
NotStarted ==
  [c \in Components |->
     [handle |-> 0, made |-> 0, running |-> FALSE, stopped |-> FALSE, invoked |-> 0,
      delivered |-> 0, awaiting |-> 0]]

\* no call has returned yet
NoResult ==
  [kind |-> "none", score |-> 0, threshold |-> 0, detected |-> FALSE, raw |-> "-"]

----------------------------------------------------------------------------
(* Voice-activity gate: CobraVAD *)

\* a reset that forgets to clear the silence timer
VadResetKeepsSilence ==
  /\ speaking' = FALSE
  /\ speechStartTime' = 0
  /\ silenceStartTime' = silenceStartTime

\* a reset that leaves the speaking flag
VadResetKeepsSpeaking ==
  /\ speaking' = speaking
  /\ speechStartTime' = 0
  /\ silenceStartTime' = 0

\* CobraVAD.reset
VadReset ==
  /\ speaking' = FALSE
  /\ speechStartTime' = 0
  /\ silenceStartTime' = 0

\* a gate that reports finalize once and then forgets the utterance
VadProcessOneShot(p, t) ==
  LET isVoice == p >= VoiceThreshold
      isSilence == p < SilenceThreshold
      begins == isVoice /\ ~speaking
      sp == IF begins THEN TRUE ELSE speaking
      start == IF begins THEN t ELSE speechStartTime
      sil0 == IF begins THEN 0 ELSE silenceStartTime
      sil == IF sp /\ isSilence THEN (IF sil0 = 0 THEN t ELSE sil0)
             ELSE IF sp /\ isVoice THEN 0
             ELSE sil0
      fin == /\ sp
             /\ (IF sp THEN t - start ELSE 0) >= vadConfig.minSpeechDurationMs
             /\ (IF sil > 0 THEN t - sil ELSE 0) >= vadConfig.silenceDurationMs
  IN [speaking |-> sp /\ ~fin, speechStartTime |-> IF fin THEN 0 ELSE start,
      silenceStartTime |-> IF fin THEN 0 ELSE sil,
      voiceProbability |-> p, isSpeaking |-> sp, shouldFinalize |-> fin]

\* isVoice = voiceProbability >= this.config.voiceThreshold
IsVoice(p) == p >= VoiceThreshold

\* a gate without a band between its thresholds
IsSilenceBelowVoice(p) == p < VoiceThreshold

\* isSilence = voiceProbability < this.config.silenceThreshold
IsSilence(p) == p < SilenceThreshold

\* a gate whose speech starts anew with every voice sample
SpeechBeginsOnEveryVoice(p) == IsVoice(p)

\* if (isVoice && !this.speaking)
SpeechBegins(p) == IsVoice(p) /\ ~speaking

\* CobraVAD.processAudio on a sample p read at time t: the new fields and the result
VadProcess(p, t) ==
  LET isVoice == IsVoice(p)
      isSilence == IsSilence(p)
      begins == SpeechBegins(p)
      sp == IF begins THEN TRUE ELSE speaking
      start == IF begins THEN t ELSE speechStartTime
      sil0 == IF begins THEN 0 ELSE silenceStartTime
      sil == IF sp /\ isSilence THEN (IF sil0 = 0 THEN t ELSE sil0)
             ELSE IF sp /\ isVoice THEN 0
             ELSE sil0
      speechDuration == IF sp THEN t - start ELSE 0
      silenceDuration == IF sil > 0 THEN t - sil ELSE 0
      hasMinSpeech == speechDuration >= vadConfig.minSpeechDurationMs
      hasSufficientSilence == silenceDuration >= vadConfig.silenceDurationMs
  IN [speaking |-> sp, speechStartTime |-> start, silenceStartTime |-> sil,
      voiceProbability |-> p, isSpeaking |-> sp,
      shouldFinalize |-> sp /\ hasMinSpeech /\ hasSufficientSilence]

----------------------------------------------------------------------------
(* Session orchestrator: the callbacks main() registers *)

\* a wake-word callback without its state guard
WakeGuardOpen == TRUE

\* the state guard of the wake-word callback
WakeGuard == state = LISTENING_FOR_WAKE_WORD

\* the history of a turn is kept from the wake detection that starts the capture
NewCapture ==
  /\ frames' = 0
  /\ now' = 1
  /\ trace' = <<>>
  /\ sentText' = <<>>
  /\ errDelivered' = FALSE
  /\ turns' = IF wsOpen THEN turns + 1 ELSE turns

\* the model stops starting captures on an open socket after MaxTurns of them
\* (on a closed socket every capture ends without reaching the backend)
CaptureBound == (WakeGuard /\ wsOpen) => turns < MaxTurns

\* a wake-word callback that starts a capture in whatever state it is called
OnWakeWordUnguarded(characterName) ==
  /\ targetCharacter' = characterName
  /\ state' = LISTENING_FOR_SPEECH
  /\ transcriptBuffer' = <<>>
  /\ VadReset
  /\ NewCapture

\* wakeWord.onWakeWord((characterName) => ...)
OnWakeWord(characterName) ==
  IF WakeGuard
  THEN /\ targetCharacter' = characterName
       /\ state' = LISTENING_FOR_SPEECH
       /\ transcriptBuffer' = <<>>
       /\ VadReset
       /\ NewCapture
  ELSE UNCHANGED <<sessionVars, vadVars, now, frames, trace, sentText, errDelivered,
                   turns>>

\* a transcript callback without its state guard
OnTranscriptUnguarded(st, buf, transcript) ==
  IF transcript # <<>> THEN buf \o transcript ELSE buf

\* stt.onTranscript((transcript, isFinal) => ...): the accumulator after the callback
OnTranscript(st, buf, transcript) ==
  IF st # LISTENING_FOR_SPEECH THEN buf
  ELSE IF transcript # <<>> THEN buf \o transcript
  ELSE buf

\* CheetahSTT.processAudio: a partial transcript, then on an endpoint the flushed one
SttProcessAudio(st, buf, partial, final) ==
  OnTranscript(st, OnTranscript(st, buf, partial), final)

\* a frame handler that flushes whenever the gate reports finalize
FinalizeGuardGateOnly(shouldFinalize, buf) == shouldFinalize

\* the condition under which the frame handler flushes the recognizer
FinalizeGuard(shouldFinalize, buf) == shouldFinalize /\ Trim(buf) # <<>>

\* the accumulator after the flushed text was appended
AfterFlush(buf, finalText) == IF finalText # <<>> THEN buf \o finalText ELSE buf

\* the condition under which the frame handler calls processUserInput
TurnGuard(buf) == Trim(buf) # <<>>

\* a frame handler that hands the accumulator over untrimmed
TurnTextRaw(buf) == buf

\* the text the frame handler hands to processUserInput
TurnText(buf) == Trim(buf)

\* a frame handler that keeps the accumulator after calling processUserInput
BufferAfterTurnStartKept(buf) == buf

\* what the frame handler assigns to the accumulator after calling processUserInput
BufferAfterTurnStart(buf) == <<>>

\* an upsert that keeps the row it finds (INSERT OR IGNORE)
SetLastCharacterKeepsOld(row, characterName) == IF row = NoChar THEN characterName ELSE row

\* setLastCharacter: the row "last_character" after INSERT ... ON CONFLICT(key) DO
\* UPDATE SET value = excluded.value; NoChar stands for no row
SetLastCharacter(row, characterName) == characterName

\* getLastCharacter: row?.value ?? null
GetLastCharacter(row) == row

\* the condition under which processUserInput switches the persona
NeedsSwitch(currentChar, target) == currentChar # target

\* a finally block that leaves the persona in place
FinallyKeepsPersona(tr) ==
  /\ state' = LISTENING_FOR_WAKE_WORD
  /\ targetCharacter' = targetCharacter
  /\ pc' = "none"
  /\ pendingMsg' = NoMsg
  /\ responseChunks' = <<>>
  /\ text' = <<>>
  /\ trace' = Append(tr, "idle")

\* processUserInput: the finally block (its locals end with the invocation)
Finally(tr) ==
  /\ state' = LISTENING_FOR_WAKE_WORD
  /\ targetCharacter' = NoChar
  /\ pc' = "none"
  /\ pendingMsg' = NoMsg
  /\ responseChunks' = <<>>
  /\ text' = <<>>
  /\ trace' = Append(tr, "idle")

\* a turn that stays in PROCESSING while it submits
StateWhileSubmittingIsProcessing == PROCESSING

\* state = State.SPEAKING, assigned before the message is submitted
StateWhileSubmitting == SPEAKING

\* SillyTavernWsClient.sendMessage up to its first await, after state = SPEAKING;
\* a throw of send() rejects the first next() and the turn ends in finally
SendMessage(txt, tr, entered) ==
  IF wsOpen
  THEN /\ state' = StateWhileSubmitting
       /\ targetCharacter' = targetCharacter
       /\ backend' = [backend EXCEPT !.mode = "responding", !.chunksLeft = MaxChunks]
       /\ wire' = Req("message", "", txt)
       /\ pc' = "listening"
       /\ pendingMsg' = NoMsg
       /\ responseChunks' = <<>>
       /\ text' = <<>>
       /\ trace' = Append(tr, "submit")
       /\ activeTurns' = activeTurns + entered
  ELSE /\ Finally(tr)
       /\ activeTurns' = activeTurns + entered - 1
       /\ wire' = NoReq
       /\ UNCHANGED backend

\* SillyTavernWsClient.switchCharacter up to its await
SwitchCharacter(name, txt, tr) ==
  IF wsOpen
  THEN /\ state' = PROCESSING
       /\ targetCharacter' = targetCharacter
       /\ backend' = [backend EXCEPT !.pendingSwitch = Append(@, name)]
       /\ wire' = Req("switch", name, <<>>)
       /\ messageResolvers' = messageResolvers \cup {"character_switched"}
       /\ pc' = "awaitSwitch"
       /\ pendingMsg' = NoMsg
       /\ responseChunks' = <<>>
       /\ text' = txt
       /\ trace' = Append(tr, "switchReq")
       /\ activeTurns' = activeTurns + 1
  ELSE /\ Finally(tr)
       /\ wire' = NoReq
       /\ UNCHANGED <<backend, messageResolvers, activeTurns>>

\* processUserInput(text) up to its first await, called by the frame handler
ProcessUserInput(txt, tr) ==
  /\ targetCharacter # NoChar
  /\ IF NeedsSwitch(currentCharacter, targetCharacter)
     THEN SwitchCharacter(targetCharacter, txt, tr)
     ELSE SendMessage(txt, tr, 1) /\ UNCHANGED messageResolvers

\* no continuation of a settled promise is waiting to run
MacrotaskBoundary == pc \notin {"switched", "resuming"}

----------------------------------------------------------------------------
(* Frame delivery: PvRecorderInput.readLoop calling audioInput.onAudio *)

\* a frame while listening for the wake word: PorcupineWakeWord.processAudio,
\* which calls the wake-word callback synchronously on a detection
FrameIdle(keyword) ==
  /\ UNCHANGED <<bootVars, pipeVars>>
  /\ boot = "running"
  /\ state = LISTENING_FOR_WAKE_WORD
  /\ IF keyword # NoChar
     THEN /\ CaptureBound
          /\ OnWakeWord(keyword)
          /\ ev' = Ev("wake", FALSE, <<>>, FALSE, <<>>)
     ELSE /\ ev' = Quiet
          /\ UNCHANGED <<sessionVars, vadVars, now, frames, trace, sentText,
                         errDelivered, turns>>
  /\ wire' = NoReq
  /\ UNCHANGED <<clientVars, net, backend, turnVars, activeTurns>>

\* the frame handler while capturing: recognizer, then gate, then possibly flush
\* and turn; label tells the frames on which the recognizer reported an endpoint
FrameCaptureAs(label, partial, final, p, dt, finalText) ==
  /\ UNCHANGED <<bootVars, pipeVars>>
  /\ boot = "running"
  /\ state = LISTENING_FOR_SPEECH
  /\ frames < MaxFrames
  /\ LET buf == SttProcessAudio(state, transcriptBuffer, partial, final)
         v == VadProcess(p, now + dt)
         flushed == FinalizeGuard(v.shouldFinalize, buf)
         buf2 == AfterFlush(buf, finalText)
     IN /\ Len(buf) <= MaxLen
        /\ now' = now + dt
        /\ speaking' = v.speaking
        /\ speechStartTime' = v.speechStartTime
        /\ silenceStartTime' = v.silenceStartTime
        /\ frames' = frames + 1
        /\ ~flushed => finalText = <<>>
        /\ ev' = Ev(label, v.shouldFinalize, buf, flushed, finalText)
        /\ IF flushed /\ TurnGuard(buf2)
           THEN /\ ProcessUserInput(TurnText(buf2), Append(trace, "flush"))
                /\ transcriptBuffer' = BufferAfterTurnStart(buf2)
           ELSE /\ transcriptBuffer' = (IF flushed THEN buf2 ELSE buf)
                /\ trace' = (IF flushed THEN Append(trace, "flush") ELSE trace)
                /\ wire' = NoReq
                /\ UNCHANGED <<state, targetCharacter, messageResolvers, backend,
                               turnVars, activeTurns>>
  /\ UNCHANGED <<wsOpen, connected, headlessReady, currentCharacter, lastCharacter, net,
                 sentText, errDelivered, turns>>

\* a frame while capturing
FrameCapture(partial, final, p, dt, finalText) ==
  /\ state = LISTENING_FOR_SPEECH
  /\ FrameCaptureAs("frame", partial, final, p, dt, finalText)

\* a frame while capturing on which cheetah.process reports isEndpoint: the
\* recognizer flushes itself and calls back with the final transcript, if any
FrameEndpoint(partial, final, p, dt, finalText) ==
  /\ state = LISTENING_FOR_SPEECH
  /\ FrameCaptureAs("endpoint", partial, final, p, dt, finalText)

\* a handler that keeps feeding the gate while a turn runs
FrameDroppedFeedsGate ==
  /\ UNCHANGED <<bootVars, pipeVars>>
  /\ boot = "running"
  /\ state \in {PROCESSING, SPEAKING}
  /\ pc \notin {"switched", "resuming"}
  /\ \E p \in Probabilities :
       LET v == VadProcess(p, now + 400)
       IN /\ speaking' = v.speaking
          /\ speechStartTime' = v.speechStartTime
          /\ silenceStartTime' = v.silenceStartTime
  /\ ev' = Ev("dropped", FALSE, <<>>, FALSE, <<>>)
  /\ wire' = NoReq
  /\ UNCHANGED <<sessionVars, now, frames, clientVars, net, backend, turnVars, histVars>>

\* a frame while a turn runs: the handler has no branch for these states
FrameDropped ==
  /\ UNCHANGED <<bootVars, pipeVars>>
  /\ boot = "running"
  /\ state \in {PROCESSING, SPEAKING}
  /\ MacrotaskBoundary
  /\ ev' = Ev("dropped", FALSE, <<>>, FALSE, <<>>)
  /\ wire' = NoReq
  /\ UNCHANGED <<sessionVars, vadVars, now, frames, clientVars, net, backend, turnVars,
                 histVars>>

\* a read loop whose try block encloses the whole loop: a throw ends it
ReadLoopCatchOutside(b, threw) == IF threw THEN "stopped" ELSE b

\* PvRecorderInput.readLoop: the try block is inside the while loop, so the loop
\* iterates again whether or not the callback threw
ReadLoop(b, threw) == b

\* a frame whose handler is left by an exception of an engine call: porcupine.process
\* ("wake"), cheetah.process ("stt"), cheetah.flush inside the recognizer's
\* processAudio ("sttFlush"), cobra.process ("vad"), or stt.flush of the frame
\* handler ("flush"). What ran before the throw has taken effect.
FrameThrows(stage, partial, p, dt) ==
  /\ boot = "running"
  /\ boot' = ReadLoop(boot, TRUE)
  /\ UNCHANGED <<bootEnv, vadConfig, bootLog, lastWritten, pipeVars>>
  /\ ev' = Ev("threw", FALSE, <<>>, FALSE, <<>>)
  /\ wire' = NoReq
  /\ IF stage = "wake"
     THEN /\ state = LISTENING_FOR_WAKE_WORD
          /\ partial = <<>> /\ p = 10
          /\ UNCHANGED <<transcriptBuffer, vadVars, now, frames>>
     ELSE /\ state = LISTENING_FOR_SPEECH
          /\ LET buf == IF stage = "stt" THEN transcriptBuffer
                        ELSE OnTranscript(state, transcriptBuffer, partial)
                 v == VadProcess(p, now + dt)
             IN /\ Len(buf) <= MaxLen
                /\ stage = "stt" => partial = <<>>
                /\ stage \in {"stt", "sttFlush", "vad"} => p = 10
                /\ transcriptBuffer' = buf
                /\ IF stage = "flush"
                   THEN /\ frames < MaxFrames
                        /\ FinalizeGuard(v.shouldFinalize, buf)
                        /\ speaking' = v.speaking
                        /\ speechStartTime' = v.speechStartTime
                        /\ silenceStartTime' = v.silenceStartTime
                        /\ now' = now + dt
                        /\ frames' = frames + 1
                   ELSE UNCHANGED <<vadVars, now, frames>>
  /\ UNCHANGED <<state, targetCharacter, clientVars, net, backend, turnVars, histVars>>

\* OpenWakeWord.handleEvent: a detection read from the detector process calls the
\* wake-word callback outside any frame handler
DetectionEvent(model) ==
  /\ UNCHANGED <<bootVars, pipeVars>>
  /\ MacrotaskBoundary
  /\ CaptureBound
  /\ OnWakeWord(model)
  /\ ev' = Ev("wake", FALSE, <<>>, FALSE, <<>>)
  /\ wire' = NoReq
  /\ UNCHANGED <<clientVars, net, backend, turnVars, activeTurns>>

----------------------------------------------------------------------------
(* Dialogue client: socket events and timers *)

\* SillyTavernWsClient.handleMessage (a status message carries its headlessReady
\* flag in the text field, <<"r">> for true)
HandleMessage(msg) ==
  /\ headlessReady' = IF msg.type = "status" THEN msg.text = <<"r">> ELSE headlessReady
  /\ currentCharacter' =
       IF msg.type \in {"status", "character_switched"} THEN msg.character
       ELSE currentCharacter
  /\ messageResolvers' = messageResolvers \ {msg.type}

\* the handler sendMessage registers for one message: it takes the types below
HandlerTakes(msg) == msg.type \in {"chunk", "end", "error"}

\* ws "message" event: handleMessage, then sendMessage's handler if one is registered.
\* Messages of one socket read are emitted back to back, before the continuation of
\* a promise resolved by the first of them runs.
Deliver ==
  /\ UNCHANGED <<bootVars, pipeVars>>
  /\ wsOpen
  /\ net # <<>>
  /\ LET msg == Head(net)
     IN /\ net' = Tail(net)
        /\ HandleMessage(msg)
        /\ errDelivered' =
             (errDelivered \/ (msg.type = "error" /\ pc \in {"listening", "resuming"}))
        /\ IF msg.type \in messageResolvers /\ pc = "awaitSwitch"
           THEN /\ pc' = "switched"
                /\ trace' = Append(trace, "switchAck")
                /\ UNCHANGED pendingMsg
           ELSE IF pc = "listening" /\ HandlerTakes(msg)
           THEN /\ pc' = "resuming"
                /\ pendingMsg' = msg
                /\ UNCHANGED trace
           ELSE UNCHANGED <<pc, pendingMsg, trace>>
  /\ ev' = Quiet
  /\ wire' = NoReq
  /\ UNCHANGED <<sessionVars, vadVars, now, frames, wsOpen, connected, lastCharacter,
                 backend, responseChunks, text, sentText, activeTurns, turns>>

\* processUserInput after the awaited switchCharacter resolved
AfterSwitch ==
  /\ pc = "switched"
  /\ lastCharacter' = SetLastCharacter(lastCharacter, targetCharacter)
  /\ lastWritten' = targetCharacter
  /\ UNCHANGED <<boot, bootEnv, vadConfig, bootLog, pipeVars>>
  /\ SendMessage(text, trace, 0)
  /\ ev' = Quiet
  /\ UNCHANGED <<transcriptBuffer, vadVars, now, frames, wsOpen, connected, headlessReady,
                 currentCharacter, messageResolvers, net, sentText, errDelivered, turns>>

\* the timer of waitForMessage("character_switched") fires: the await throws
SwitchTimeout ==
  /\ UNCHANGED <<bootVars, pipeVars>>
  /\ pc = "awaitSwitch"
  /\ "character_switched" \in messageResolvers
  /\ messageResolvers' = messageResolvers \ {"character_switched"}
  /\ Finally(trace)
  /\ activeTurns' = activeTurns - 1
  /\ ev' = Quiet
  /\ wire' = NoReq
  /\ UNCHANGED <<transcriptBuffer, vadVars, now, frames, wsOpen, connected, headlessReady,
                 currentCharacter, lastCharacter, net, backend, sentText, errDelivered,
                 turns>>

\* a response that is voiced whatever its text
HasResponseAlways(full) == TRUE

\* if (fullResponse): the joined text is not the empty string
HasResponse(full) == full # <<>>

\* the for-await loop of processUserInput resumes with the message the handler took
Resume ==
  /\ UNCHANGED <<bootVars, pipeVars>>
  /\ pc = "resuming"
  /\ LET full == Join(responseChunks)
     IN CASE pendingMsg.type = "chunk" ->
               /\ responseChunks' = Append(responseChunks, pendingMsg.text)
               /\ pc' = "listening"
               /\ pendingMsg' = NoMsg
               /\ trace' = Append(trace, "chunk")
               /\ wire' = NoReq
               /\ UNCHANGED <<state, targetCharacter, text, activeTurns>>
          [] pendingMsg.type = "end" /\ HasResponse(full) ->
               /\ wire' = Req("synthesize", "", full)
               /\ pc' = "synth"
               /\ pendingMsg' = NoMsg
               /\ trace' = Append(Append(trace, "end"), "synth")
               /\ UNCHANGED <<state, targetCharacter, responseChunks, text, activeTurns>>
          [] pendingMsg.type = "end" /\ ~HasResponse(full) ->
               /\ Finally(Append(trace, "end"))
               /\ activeTurns' = activeTurns - 1
               /\ wire' = NoReq
          [] pendingMsg.type = "error" ->
               /\ Finally(trace)
               /\ activeTurns' = activeTurns - 1
               /\ wire' = NoReq
  /\ ev' = Quiet
  /\ UNCHANGED <<transcriptBuffer, vadVars, now, frames, clientVars, net, backend,
                 sentText, errDelivered, turns>>

\* tts.synthesize settles: on success audioOutput.play is called
SynthReturn(ok) ==
  /\ UNCHANGED <<bootVars, pipeVars>>
  /\ pc = "synth"
  /\ IF ok
     THEN /\ pc' = "play"
          /\ trace' = Append(trace, "play")
          /\ wire' = Req("play", "", <<>>)
          /\ UNCHANGED <<state, targetCharacter, pendingMsg, responseChunks, text,
                         activeTurns>>
     ELSE /\ Finally(trace)
          /\ activeTurns' = activeTurns - 1
          /\ wire' = NoReq
  /\ ev' = Quiet
  /\ UNCHANGED <<transcriptBuffer, vadVars, now, frames, clientVars, net, backend,
                 sentText, errDelivered, turns>>

\* audioOutput.play settles
PlayReturn(ok) ==
  /\ UNCHANGED <<bootVars, pipeVars>>
  /\ pc = "play"
  /\ Finally(trace)
  /\ activeTurns' = activeTurns - 1
  /\ ev' = Quiet
  /\ wire' = NoReq
  /\ UNCHANGED <<transcriptBuffer, vadVars, now, frames, clientVars, net, backend,
                 sentText, errDelivered, turns>>

\* ws "close" event
Close ==
  /\ UNCHANGED <<bootVars, pipeVars>>
  /\ wsOpen
  /\ wsOpen' = FALSE
  /\ connected' = FALSE
  /\ headlessReady' = FALSE
  /\ ev' = Quiet
  /\ wire' = NoReq
  /\ UNCHANGED <<sessionVars, vadVars, now, frames, currentCharacter, messageResolvers,
                 lastCharacter, net, backend, turnVars, histVars>>

----------------------------------------------------------------------------
(* Dialogue backend (environment): it answers the requests it received *)

BackendSend(msg) ==
  /\ UNCHANGED <<bootVars, pipeVars>>
  /\ wsOpen
  /\ net' = Append(net, msg)
  /\ ev' = Quiet
  /\ wire' = NoReq
  /\ UNCHANGED <<sessionVars, vadVars, now, frames, clientVars, turnVars, trace,
                 errDelivered, activeTurns, turns>>

BackendAck ==
  /\ backend.pendingSwitch # <<>>
  /\ BackendSend(Msg("character_switched", Head(backend.pendingSwitch), <<>>))
  /\ backend' = [backend EXCEPT !.pendingSwitch = Tail(@)]
  /\ UNCHANGED sentText

BackendChunk(txt) ==
  /\ backend.mode = "responding"
  /\ backend.chunksLeft > 0
  /\ BackendSend(Msg("chunk", NoChar, txt))
  /\ backend' = [backend EXCEPT !.chunksLeft = @ - 1]
  /\ sentText' = sentText \o txt

BackendEnd ==
  /\ backend.mode = "responding"
  /\ BackendSend(Msg("end", NoChar, <<>>))
  /\ backend' = [backend EXCEPT !.mode = "idle", !.chunksLeft = 0]
  /\ UNCHANGED sentText

BackendError ==
  /\ backend.mode = "responding"
  /\ BackendSend(Msg("error", NoChar, <<>>))
  /\ backend' = [backend EXCEPT !.mode = "idle", !.chunksLeft = 0]
  /\ UNCHANGED sentText

----------------------------------------------------------------------------
(* The state after main() has connected, started the engines and registered *)
(* its callbacks                                                            *)

Init ==
  /\ state = LISTENING_FOR_WAKE_WORD
  /\ targetCharacter = NoChar
  /\ transcriptBuffer = <<>>
  /\ speaking = FALSE
  /\ speechStartTime = 0
  /\ silenceStartTime = 0
  /\ now = 1
  /\ frames = 0
  /\ wsOpen = TRUE
  /\ connected = TRUE
  /\ headlessReady = TRUE
  /\ currentCharacter \in Characters \cup {NoChar}
  /\ messageResolvers = {}
  /\ lastCharacter = currentCharacter
  /\ net = <<>>
  /\ backend = [mode |-> "idle", pendingSwitch |-> <<>>, chunksLeft |-> 0]
  /\ pc = "none"
  /\ pendingMsg = NoMsg
  /\ responseChunks = <<>>
  /\ text = <<>>
  /\ trace = <<>>
  /\ sentText = <<>>
  /\ errDelivered = FALSE
  /\ activeTurns = 0
  /\ turns = 0
  /\ ev = Quiet
  /\ wire = NoReq
  /\ boot = "running"
  /\ bootEnv = [engine |-> "porcupine", hasKey |-> TRUE, registered |-> Characters,
                run |-> 1]
  /\ bootLog = <<>>
  /\ lastWritten = lastCharacter
  /\ vadConfig = MainConfig
  /\ detector = NewDetector
  /\ pipeHist = NoCalls
  /\ result = NoResult
  /\ audioBuffer = 0
  /\ inflight = <<>>
  /\ waits = NoWaits
  /\ oww = NoProcess
  /\ handles = NotStarted

Next ==
  \/ \E k \in Characters \cup {NoChar} : FrameIdle(k)
  \/ \E partial \in Words, final \in Words, p \in Probabilities, dt \in FrameGaps,
        finalText \in Words : FrameCapture(partial, final, p, dt, finalText)
  \/ FrameDropped
  \/ \E c \in Characters : DetectionEvent(c)
  \/ Deliver
  \/ AfterSwitch
  \/ SwitchTimeout
  \/ Resume
  \/ \E ok \in BOOLEAN : SynthReturn(ok)
  \/ \E ok \in BOOLEAN : PlayReturn(ok)
  \/ Close
  \/ BackendAck
  \/ \E txt \in ChunkTexts : BackendChunk(txt)
  \/ BackendEnd
  \/ BackendError

Spec == Init /\ [][Next]_vars

\* SpeechToText.onTranscript leaves open when a recognizer calls back: a transcript
\* delivered outside the frame handler, in whatever state the session is
TranscriptEvent(transcript) ==
  /\ UNCHANGED <<bootVars, pipeVars>>
  /\ MacrotaskBoundary
  /\ transcriptBuffer' = OnTranscript(state, transcriptBuffer, transcript)
  /\ Len(transcriptBuffer') <= MaxLen
  /\ ev' = Ev("transcript", FALSE, <<>>, FALSE, <<>>)
  /\ wire' = NoReq
  /\ UNCHANGED <<state, targetCharacter, vadVars, now, frames, clientVars, net, backend,
                 turnVars, histVars>>

LateNext == Next \/ \E t \in Words \ {<<>>} : TranscriptEvent(t)

\* the program with a recognizer that calls back at any time
LateSpec == Init /\ [][LateNext]_vars

EndpointNext ==
  \/ Next
  \/ \E partial \in Words, final \in Words, p \in Probabilities, dt \in FrameGaps,
        finalText \in Words : FrameEndpoint(partial, final, p, dt, finalText)

\* the start of a run whose backend reported one of the registered personas
EndpointInit == Init /\ currentCharacter = "Luna"

\* the program, the frames with a recognizer endpoint told apart
EndpointSpec == EndpointInit /\ [][EndpointNext]_vars

Stages == {"wake", "stt", "sttFlush", "vad", "flush"}

EngineFailNext ==
  \/ Next
  \/ \E stage \in Stages, partial \in Words, p \in Probabilities, dt \in FrameGaps :
       FrameThrows(stage, partial, p, dt)

\* the start of a run whose backend reported one of the registered personas
EngineFailInit == Init /\ currentCharacter = "Luna"

\* the program with engines whose per-frame calls may throw
EngineFailSpec == EngineFailInit /\ [][EngineFailNext]_vars

\* The state in which an earlier turn has ended by the timeout of its persona
\* switch (wake, three frames up to the finalize, switch request, timeout) while the
\* backend still holds that request unanswered; the capture count starts anew.
AfterTimeoutInit ==
  /\ state = LISTENING_FOR_WAKE_WORD
  /\ targetCharacter = NoChar
  /\ transcriptBuffer = <<>>
  /\ speaking = TRUE
  /\ speechStartTime = 401
  /\ silenceStartTime = 801
  /\ now = 1201
  /\ frames = 3
  /\ wsOpen = TRUE
  /\ connected = TRUE
  /\ headlessReady = TRUE
  /\ currentCharacter \in Characters \cup {NoChar}
  /\ messageResolvers = {}
  /\ lastCharacter = currentCharacter
  /\ net = <<>>
  /\ \E c \in Characters \ {currentCharacter} :
       backend = [mode |-> "idle", pendingSwitch |-> <<c>>, chunksLeft |-> 0]
  /\ pc = "none"
  /\ pendingMsg = NoMsg
  /\ responseChunks = <<>>
  /\ text = <<>>
  /\ trace = <<"flush", "switchReq", "idle">>
  /\ sentText = <<>>
  /\ errDelivered = FALSE
  /\ activeTurns = 0
  /\ turns = 0
  /\ ev = Quiet
  /\ wire = NoReq
  /\ boot = "running"
  /\ bootEnv = [engine |-> "porcupine", hasKey |-> TRUE, registered |-> Characters,
                run |-> 1]
  /\ bootLog = <<>>
  /\ lastWritten = lastCharacter
  /\ vadConfig = MainConfig
  /\ detector = NewDetector
  /\ pipeHist = NoCalls
  /\ result = NoResult
  /\ audioBuffer = 0
  /\ inflight = <<>>
  /\ waits = NoWaits
  /\ oww = NoProcess
  /\ handles = NotStarted

\* the program from there on
AfterTimeoutSpec == AfterTimeoutInit /\ [][Next]_vars

----------------------------------------------------------------------------
(* Process start: main() from loadConfig to audioInput.start(), over several runs *)

MaxRuns == 2    \* runs of the process

Engines == {"porcupine", "openwakeword"}

\* a run's environment: WAKEWORD_ENGINE, whether PICOVOICE_ACCESS_KEY is set, the
\* names found in the wake-word directory, and the number of the run
Env(engine, hasKey, registered, run) ==
  [engine |-> engine, hasKey |-> hasKey, registered |-> registered, run |-> run]

\* a loadConfig that never asks for the credential
LoadConfigNeverThrows(env) == FALSE

\* loadConfig: the credential is required for the porcupine engine
LoadConfigThrows(env) == env.engine = "porcupine" /\ ~env.hasKey

\* main(): config.characterMappings.length === 0
NoMappings(env) == env.registered = {}

nonBootVars == <<sessionVars, vadVars, now, frames, messageResolvers, net, backend,
                 turnVars, histVars, ev, wire, pipeVars>>

\* process.exit, after cleanup() where main() got that far
BootExits ==
  /\ boot' = "exited"
  /\ wsOpen' = FALSE
  /\ connected' = FALSE
  /\ headlessReady' = FALSE

\* loadConfig() and the check of the mappings
BootLoadConfig ==
  /\ boot = "start"
  /\ IF LoadConfigThrows(bootEnv) \/ NoMappings(bootEnv)
     THEN BootExits
     ELSE boot' = "configured" /\ UNCHANGED <<wsOpen, connected, headlessReady>>
  /\ UNCHANGED <<bootEnv, vadConfig, bootLog, lastWritten, currentCharacter,
                 lastCharacter, nonBootVars>>

\* stClient.connect(): the socket is created
BootConnect ==
  /\ boot = "configured"
  /\ boot' = "connecting"
  /\ bootLog' = Append(bootLog, "connect")
  /\ wsOpen' = TRUE
  /\ UNCHANGED <<bootEnv, vadConfig, lastWritten, connected, headlessReady, currentCharacter,
                 lastCharacter, nonBootVars>>

\* connect() settles: resolved after a ready status message, or rejected
BootConnectSettles(ok, character) ==
  /\ boot = "connecting"
  /\ IF ok
     THEN /\ boot' = "connected"
          /\ connected' = TRUE
          /\ headlessReady' = TRUE
          /\ currentCharacter' = character
          /\ UNCHANGED wsOpen
     ELSE BootExits /\ UNCHANGED currentCharacter
  /\ UNCHANGED <<bootEnv, vadConfig, bootLog, lastWritten, lastCharacter, nonBootVars>>

\* const lastChar = getLastCharacter(); if (lastChar) await switchCharacter(lastChar)
BootRestore ==
  /\ boot = "connected"
  /\ IF GetLastCharacter(lastCharacter) # NoChar
     THEN boot' = "restoring" /\ bootLog' = Append(bootLog, "switchReq")
     ELSE boot' = "restored" /\ bootLog' = Append(bootLog, "noFact")
  /\ UNCHANGED <<bootEnv, vadConfig, lastWritten, wsOpen, connected, headlessReady, currentCharacter,
                 lastCharacter, nonBootVars>>

\* the awaited switchCharacter settles: acknowledged, or timed out (fatal)
BootRestoreSettles(ok) ==
  /\ boot = "restoring"
  /\ IF ok
     THEN /\ boot' = "restored"
          /\ bootLog' = Append(bootLog, "switchAck")
          /\ currentCharacter' = GetLastCharacter(lastCharacter)
          /\ UNCHANGED <<wsOpen, connected, headlessReady>>
     ELSE BootExits /\ UNCHANGED <<bootLog, currentCharacter>>
  /\ UNCHANGED <<bootEnv, vadConfig, lastWritten, lastCharacter, nonBootVars>>

\* wakeWord.start(), stt.start(), vad.start(), the callbacks, audioInput.start();
\* an engine that cannot be created throws (fatal)
BootStartEngines(ok) ==
  /\ boot = "restored"
  /\ IF ok
     THEN /\ boot' = "running"
          /\ bootLog' = bootLog \o <<"wakeStart", "sttStart", "vadStart", "audioStart">>
          /\ UNCHANGED <<wsOpen, connected, headlessReady>>
     ELSE BootExits /\ UNCHANGED bootLog
  /\ UNCHANGED <<bootEnv, vadConfig, lastWritten, currentCharacter, lastCharacter,
                 nonBootVars>>

\* the first frame reaches the handler
BootFrame ==
  /\ boot = "running"
  /\ bootLog # <<>> /\ bootLog[Len(bootLog)] # "frame"
  /\ bootLog' = Append(bootLog, "frame")
  /\ UNCHANGED <<boot, bootEnv, vadConfig, lastWritten, wsOpen, connected, headlessReady,
                 currentCharacter, lastCharacter, nonBootVars>>

\* a turn of the running process writes the fact after its acknowledged switch
BootSetLast(characterName) ==
  /\ boot = "running"
  /\ characterName \in bootEnv.registered
  /\ lastCharacter' = SetLastCharacter(lastCharacter, characterName)
  /\ lastWritten' = characterName
  /\ currentCharacter' = characterName
  /\ UNCHANGED <<boot, bootEnv, vadConfig, bootLog, wsOpen, connected, headlessReady,
                 nonBootVars>>

\* SIGINT / SIGTERM: cleanup()
BootSignal ==
  /\ boot = "running"
  /\ BootExits
  /\ UNCHANGED <<bootEnv, vadConfig, bootLog, lastWritten, currentCharacter,
                 lastCharacter, nonBootVars>>

\* the process is started again; the database file is what the last run left
BootRestart ==
  /\ boot = "exited"
  /\ bootEnv.run < MaxRuns
  /\ boot' = "start"
  /\ \E e \in Engines, k \in BOOLEAN, r \in SUBSET Characters :
       bootEnv' = Env(e, k, r, bootEnv.run + 1)
  /\ bootLog' = <<>>
  /\ currentCharacter' = NoChar
  /\ UNCHANGED <<lastWritten, vadConfig, wsOpen, connected, headlessReady, lastCharacter,
                 nonBootVars>>

\* the first start of the process, with an empty database
StartupInit ==
  /\ state = LISTENING_FOR_WAKE_WORD
  /\ targetCharacter = NoChar
  /\ transcriptBuffer = <<>>
  /\ speaking = FALSE
  /\ speechStartTime = 0
  /\ silenceStartTime = 0
  /\ now = 1
  /\ frames = 0
  /\ wsOpen = FALSE
  /\ connected = FALSE
  /\ headlessReady = FALSE
  /\ currentCharacter = NoChar
  /\ messageResolvers = {}
  /\ lastCharacter = NoChar
  /\ net = <<>>
  /\ backend = [mode |-> "idle", pendingSwitch |-> <<>>, chunksLeft |-> 0]
  /\ pc = "none"
  /\ pendingMsg = NoMsg
  /\ responseChunks = <<>>
  /\ text = <<>>
  /\ trace = <<>>
  /\ sentText = <<>>
  /\ errDelivered = FALSE
  /\ activeTurns = 0
  /\ turns = 0
  /\ ev = Quiet
  /\ wire = NoReq
  /\ boot = "start"
  /\ \E e \in Engines, k \in BOOLEAN, r \in SUBSET Characters :
       bootEnv = Env(e, k, r, 1)
  /\ bootLog = <<>>
  /\ lastWritten = NoChar
  /\ vadConfig = MainConfig
  /\ detector = NewDetector
  /\ pipeHist = NoCalls
  /\ result = NoResult
  /\ audioBuffer = 0
  /\ inflight = <<>>
  /\ waits = NoWaits
  /\ oww = NoProcess
  /\ handles = NotStarted

StartupNext ==
  \/ BootLoadConfig
  \/ BootConnect
  \/ \E ok \in BOOLEAN, c \in Characters \cup {NoChar} : BootConnectSettles(ok, c)
  \/ BootRestore
  \/ \E ok \in BOOLEAN : BootRestoreSettles(ok)
  \/ \E ok \in BOOLEAN : BootStartEngines(ok)
  \/ BootFrame
  \/ \E c \in Characters : BootSetLast(c)
  \/ BootSignal
  \/ BootRestart

StartupSpec == StartupInit /\ [][StartupNext]_vars

----------------------------------------------------------------------------
(* SillyTavernWsClient.connect() on its own: socket events and its two timers *)

\* what connect() and the socket handlers leave alone
connectRest == <<bootEnv, lastWritten, vadConfig, lastCharacter, sessionVars, vadVars,
                 frames, messageResolvers, net, backend, turnVars, histVars, ev, wire,
                 pipeVars>>

\* the socket has closed
Closed == Count(bootLog, "close") > 0

\* bootLog with the event, noted once
Noted(event) == IF Count(bootLog, event) > 0 THEN bootLog ELSE Append(bootLog, event)

\* a connect() that resolves as soon as the socket is open
CheckReadyOnOpen == connected

\* the test of the checkReady interval: if (this.headlessReady)
CheckReady == headlessReady

\* ws.on("open")
ConnOpen ==
  /\ boot = "connecting"
  /\ ~wsOpen /\ ~Closed
  /\ wsOpen' = TRUE
  /\ connected' = TRUE
  /\ bootLog' = Noted("open")
  /\ UNCHANGED <<boot, now, headlessReady, currentCharacter, connectRest>>

\* ws.on("message") with a status message: handleMessage
ConnStatus(ready, character) ==
  /\ boot = "connecting"
  /\ wsOpen
  /\ headlessReady' = ready
  /\ currentCharacter' = character
  /\ bootLog' = IF ready THEN Noted("ready") ELSE bootLog
  /\ UNCHANGED <<boot, now, wsOpen, connected, connectRest>>

\* ws.on("close"), of a socket that was open or that never opened
ConnClose ==
  /\ boot = "connecting"
  /\ ~Closed
  /\ wsOpen' = FALSE
  /\ connected' = FALSE
  /\ headlessReady' = FALSE
  /\ bootLog' = Noted("close")
  /\ UNCHANGED <<boot, now, currentCharacter, connectRest>>

\* ws.on("error"): reject(err); main() catches, cleans up and exits
ConnError ==
  /\ boot = "connecting"
  /\ ~Closed
  /\ BootExits
  /\ bootLog' = Noted("error")
  /\ UNCHANGED <<now, currentCharacter, connectRest>>

\* CheckReadyMs later: the timeout, set first, runs first when it is due and
\* rejects; else the checkReady interval runs and resolves if its test holds
ConnTick ==
  /\ boot = "connecting"
  /\ now' = now + CheckReadyMs
  /\ IF now' >= ConnectTimeoutMs
     THEN /\ BootExits
          /\ bootLog' = Noted("timeout")
     ELSE /\ boot' = IF CheckReady THEN "connected" ELSE boot
          /\ UNCHANGED <<bootLog, wsOpen, connected, headlessReady>>
  /\ UNCHANGED <<currentCharacter, connectRest>>

ConnectNext ==
  \/ ConnOpen
  \/ \E ready \in BOOLEAN, c \in Characters \cup {NoChar} : ConnStatus(ready, c)
  \/ ConnClose
  \/ ConnError
  \/ ConnTick

\* main() at await stClient.connect(): the socket created, nothing received
ConnectInit ==
  /\ state = LISTENING_FOR_WAKE_WORD
  /\ targetCharacter = NoChar
  /\ transcriptBuffer = <<>>
  /\ speaking = FALSE
  /\ speechStartTime = 0
  /\ silenceStartTime = 0
  /\ now = 0
  /\ frames = 0
  /\ wsOpen = FALSE
  /\ connected = FALSE
  /\ headlessReady = FALSE
  /\ currentCharacter = NoChar
  /\ messageResolvers = {}
  /\ lastCharacter = NoChar
  /\ net = <<>>
  /\ backend = [mode |-> "idle", pendingSwitch |-> <<>>, chunksLeft |-> 0]
  /\ pc = "none"
  /\ pendingMsg = NoMsg
  /\ responseChunks = <<>>
  /\ text = <<>>
  /\ trace = <<>>
  /\ sentText = <<>>
  /\ errDelivered = FALSE
  /\ activeTurns = 0
  /\ turns = 0
  /\ ev = Quiet
  /\ wire = NoReq
  /\ boot = "connecting"
  /\ bootEnv = Env("porcupine", TRUE, Characters, 1)
  /\ bootLog = <<"connect">>
  /\ lastWritten = NoChar
  /\ vadConfig = MainConfig
  /\ detector = NewDetector
  /\ pipeHist = NoCalls
  /\ result = NoResult
  /\ audioBuffer = 0
  /\ inflight = <<>>
  /\ waits = NoWaits
  /\ oww = NoProcess
  /\ handles = NotStarted

ConnectSpec == ConnectInit /\ [][ConnectNext]_vars

----------------------------------------------------------------------------
(* SillyTavernWsClient.waitForMessage on its own: any caller, overlapping calls *)

MaxWaits == 2      \* calls of waitForMessage
MaxMessages == 2   \* messages handled

\* what waitForMessage, its timer and handleMessage's resolver loop leave alone
waitRest == <<sessionVars, vadVars, frames, wsOpen, connected, headlessReady,
              currentCharacter, lastCharacter, net, backend, turnVars, histVars, wire,
              bootVars, detector, pipeHist, result, testerVars,
              oww, handles>>

AwaitedType == "character_switched"
MessageTypes == {AwaitedType, "chunk"}

\* the promise of the i-th call is not settled, its timer is running
Pending(i) == waits.calls[i].status = "pending"

\* the i-th call, settled
Settled(i, how) == [waits.calls EXCEPT ![i].status = how]

\* waitForMessage(type): set the timer, then messageResolvers.set(type, resolver),
\* which replaces the resolver an earlier call left under that type
WaitForMessage ==
  /\ Len(waits.calls) < MaxWaits
  /\ waits' = [waits EXCEPT
                 !.calls = Append(@, [status |-> "pending",
                                      deadline |-> now + WaitTimeoutMs]),
                 !.owner = Len(waits.calls) + 1]
  /\ messageResolvers' = messageResolvers \cup {AwaitedType}
  /\ ev' = Quiet
  /\ UNCHANGED <<now, waitRest>>

\* handleMessage, the loop over messageResolvers: the resolver under the type of
\* the message clears its timer and resolves its promise, and the key is deleted
WaitMessage(type) ==
  /\ waits.handled < MaxMessages
  /\ IF type \in messageResolvers
     THEN /\ waits' = [waits EXCEPT !.calls = Settled(waits.owner, "resolved"),
                                    !.owner = 0, !.handled = @ + 1]
          /\ messageResolvers' = messageResolvers \ {type}
     ELSE /\ waits' = [waits EXCEPT !.handled = @ + 1]
          /\ UNCHANGED messageResolvers
  /\ ev' = Ev("message", FALSE, <<type>>, FALSE, <<>>)
  /\ UNCHANGED <<now, waitRest>>

\* the timer of the i-th call: messageResolvers.delete(type), whoever set the
\* resolver that is there, and reject
WaitTimerFires(i) ==
  /\ i \in DOMAIN waits.calls
  /\ Pending(i)
  /\ now >= waits.calls[i].deadline
  /\ waits' = [waits EXCEPT !.calls = Settled(i, "rejected"), !.owner = 0]
  /\ messageResolvers' = messageResolvers \ {AwaitedType}
  /\ ev' = Quiet
  /\ UNCHANGED <<now, waitRest>>

\* time passes while a call is pending; a timer that is due runs first
WaitTick ==
  /\ \E i \in DOMAIN waits.calls : Pending(i)
  /\ \A i \in DOMAIN waits.calls : Pending(i) => now < waits.calls[i].deadline
  /\ now' = now + WaitStepMs
  /\ ev' = Quiet
  /\ UNCHANGED <<waits, messageResolvers, waitRest>>

WaitNext ==
  \/ WaitForMessage
  \/ \E type \in MessageTypes : WaitMessage(type)
  \/ \E i \in 1..MaxWaits : WaitTimerFires(i)
  \/ WaitTick

\* a connected client, no call of waitForMessage made
WaitInit ==
  /\ state = LISTENING_FOR_WAKE_WORD
  /\ targetCharacter = NoChar
  /\ transcriptBuffer = <<>>
  /\ speaking = FALSE
  /\ speechStartTime = 0
  /\ silenceStartTime = 0
  /\ now = 0
  /\ frames = 0
  /\ wsOpen = TRUE
  /\ connected = TRUE
  /\ headlessReady = TRUE
  /\ currentCharacter = NoChar
  /\ messageResolvers = {}
  /\ lastCharacter = NoChar
  /\ net = <<>>
  /\ backend = [mode |-> "idle", pendingSwitch |-> <<>>, chunksLeft |-> 0]
  /\ pc = "none"
  /\ pendingMsg = NoMsg
  /\ responseChunks = <<>>
  /\ text = <<>>
  /\ trace = <<>>
  /\ sentText = <<>>
  /\ errDelivered = FALSE
  /\ activeTurns = 0
  /\ turns = 0
  /\ ev = Quiet
  /\ wire = NoReq
  /\ boot = "running"
  /\ bootEnv = [engine |-> "porcupine", hasKey |-> TRUE, registered |-> Characters,
                run |-> 1]
  /\ bootLog = <<>>
  /\ lastWritten = NoChar
  /\ vadConfig = MainConfig
  /\ detector = NewDetector
  /\ pipeHist = NoCalls
  /\ result = NoResult
  /\ audioBuffer = 0
  /\ inflight = <<>>
  /\ waits = NoWaits
  /\ oww = NoProcess
  /\ handles = NotStarted

WaitSpec == WaitInit /\ [][WaitNext]_vars

----------------------------------------------------------------------------
(* OpenWakeWord.processAudio: frames of any length re-chunked for the subprocess *)

FrameSize == 2        \* samples in one write to the subprocess (config.frameSize)
MaxSamples == 3       \* samples in the longest frame passed in
MaxBytesFed == 12     \* bytes passed to processAudio in one run

owwRest == <<sessionVars, vadVars, now, frames, clientVars, net, backend, turnVars,
             histVars, ev, wire, bootVars, detector, pipeHist, result, testerVars,
             waits, handles>>

\* const frameSizeBytes = this.frameSize * 2
FrameSizeBytes == FrameSize * 2

\* the loop that leaves a whole chunk in the buffer
LoopGoesOnAbove(len) == len > FrameSizeBytes

\* while (this.audioBuffer.length >= frameSizeBytes)
LoopGoesOn(len) == len >= FrameSizeBytes

\* the chunks the loop writes from a buffer, in order: subarray(0, frameSizeBytes)
RECURSIVE WritesOf(_)
WritesOf(buf) ==
  IF LoopGoesOn(Len(buf))
    THEN <<SubSeq(buf, 1, FrameSizeBytes)>>
           \o WritesOf(SubSeq(buf, FrameSizeBytes + 1, Len(buf)))
    ELSE <<>>

\* what the loop leaves in audioBuffer: subarray(frameSizeBytes) each round
RECURSIVE Remainder(_)
Remainder(buf) ==
  IF LoopGoesOn(Len(buf))
    THEN Remainder(SubSeq(buf, FrameSizeBytes + 1, Len(buf)))
    ELSE buf

\* the bytes of a frame of n samples, two bytes a sample, numbered as they are
\* passed in
FrameBytes(n) == [i \in 1 .. 2 * n |-> oww.fed + i]

\* start(): returns at once while the subprocess exists; else spawns it and
\* sets running
OwwStart ==
  /\ ~oww.process
  /\ oww' = [oww EXCEPT !.process = TRUE, !.running = TRUE, !.last = "none"]
  /\ UNCHANGED owwRest

\* stop(): running = false
OwwStop ==
  /\ oww.running
  /\ oww' = [oww EXCEPT !.running = FALSE, !.last = "none"]
  /\ UNCHANGED owwRest

\* the subprocess exits: the exit handler clears process and readline
OwwExit ==
  /\ oww.process
  /\ oww' = [oww EXCEPT !.process = FALSE, !.last = "none"]
  /\ UNCHANGED owwRest

\* release(): running = false, the subprocess killed, audioBuffer emptied; the
\* record of what was accepted and written starts anew with the buffer
OwwRelease ==
  /\ oww.process \/ oww.running \/ oww.audioBuffer # <<>>
  /\ oww' = [NoProcess EXCEPT !.fed = oww.fed]
  /\ UNCHANGED owwRest

\* processAudio(frame): -1 at once without subprocess or when stopped; else the
\* frame is appended and whole chunks are written.  stdin is a pipe (stdio
\* "pipe"), and write() on a stream reports its failures by the error event,
\* so the catch is not reached
OwwProcessAudio(n) ==
  /\ oww.fed + 2 * n <= MaxBytesFed
  /\ LET bytes == FrameBytes(n)
         buf == oww.audioBuffer \o bytes
     IN IF ~oww.process \/ ~oww.running
          THEN oww' = [oww EXCEPT !.fed = @ + 2 * n, !.last = "discarded"]
          ELSE oww' = [oww EXCEPT !.fed = @ + 2 * n,
                                  !.audioBuffer = Remainder(buf),
                                  !.writes = @ \o WritesOf(buf),
                                  !.accepted = @ \o bytes,
                                  !.last = "accepted"]
  /\ UNCHANGED owwRest

OwwFrame ==
  /\ oww.fed < MaxBytesFed
  /\ \E n \in 0 .. MaxSamples : OwwProcessAudio(n)

OwwNext ==
  \/ OwwStart
  \/ OwwStop
  \/ OwwExit
  \/ OwwRelease
  \/ OwwFrame

OwwInit ==
  /\ WaitInit
  /\ oww = NoProcess

OwwSpec == OwwInit /\ [][OwwNext]_vars

----------------------------------------------------------------------------
(* PorcupineWakeWord, CheetahSTT, PvRecorderInput: start, stop, release *)

MaxEngines == 4       \* engine handles created in one run, all components together
MaxInvoked == 4       \* engine calls in one run, all components together

lifeRest == <<sessionVars, vadVars, now, frames, clientVars, net, backend, turnVars,
              histVars, ev, wire, bootVars, detector, pipeHist, result, testerVars,
              waits, oww>>

\* handles created and engine calls made so far, over the three components
RECURSIVE SumOver(_, _)
SumOver(field, cs) ==
  IF cs = {} THEN 0
  ELSE LET c == CHOOSE x \in cs : TRUE
       IN handles[c][field] + SumOver(field, cs \ {c})
Made == SumOver("made", Components)
Invoked == SumOver("invoked", Components)

\* the component whose frames come from its own read loop
Recorder == "PvRecorderInput"

\* a start() that sets running again on the handle it finds
RunningAfterEarlyReturnSet(running) == TRUE

\* start(): if (this.porcupine) return; running stays what it was
RunningAfterEarlyReturn(running) == running

\* while (this.running && this.recorder)
LoopGoesRound(h) == h.running /\ h.handle # 0

\* start(): returns early while the handle exists; else creates the engine and
\* sets running. PvRecorderInput.start then runs readLoop to its first await:
\* the loop condition holds, so recorder.read() is called
LifeStart(c) ==
  /\ IF handles[c].handle # 0
       THEN handles' = [handles EXCEPT
                          ![c].running = RunningAfterEarlyReturn(@)]
       ELSE /\ Made < MaxEngines
            /\ c = Recorder => Invoked < MaxInvoked
            /\ handles' = [handles EXCEPT
                 ![c].handle = handles[c].made + 1,
                 ![c].made = @ + 1,
                 ![c].running = TRUE,
                 ![c].stopped = FALSE,
                 ![c].invoked = IF c = Recorder THEN @ + 1 ELSE @,
                 ![c].awaiting = IF c = Recorder THEN @ + 1 ELSE @]
  /\ UNCHANGED lifeRest

\* stop(): running = false (PvRecorderInput also stops the recorder)
LifeStop(c) ==
  /\ handles' = [handles EXCEPT ![c].running = FALSE,
                                ![c].stopped = (handles[c].handle # 0)]
  /\ UNCHANGED lifeRest

\* release(): the handle released and set to null, running = false
LifeRelease(c) ==
  /\ handles' = [handles EXCEPT ![c].handle = 0, ![c].running = FALSE,
                                ![c].stopped = FALSE]
  /\ UNCHANGED lifeRest

\* processAudio(frame) of PorcupineWakeWord and CheetahSTT: nothing without handle
\* or when not running; else the engine processes the frame and the callback
\* is called if it reports something
LifeProcessAudio(c, reports) ==
  /\ c # Recorder
  /\ Invoked < MaxInvoked
  /\ IF handles[c].handle = 0 \/ ~handles[c].running
       THEN UNCHANGED handles
       ELSE handles' = [handles EXCEPT
              ![c].invoked = @ + 1,
              ![c].delivered = IF reports THEN @ + 1 ELSE @]
  /\ UNCHANGED lifeRest

\* readLoop of PvRecorderInput after its await: the frame is delivered if still
\* running (a read that throws delivers nothing), then the loop condition is
\* tested: the next read is called, or the loop is over
LifeReadReturns(threw) ==
  /\ handles[Recorder].awaiting > 0
  /\ LET h == handles[Recorder]
         round == LoopGoesRound(h) /\ Invoked < MaxInvoked
     IN handles' = [handles EXCEPT
          ![Recorder].delivered = IF h.running /\ ~threw THEN @ + 1 ELSE @,
          ![Recorder].invoked = IF round THEN @ + 1 ELSE @,
          ![Recorder].awaiting = IF round THEN @ ELSE @ - 1]
  /\ UNCHANGED lifeRest

LifeNext ==
  \/ \E c \in Components : LifeStart(c)
  \/ \E c \in Components : LifeStop(c)
  \/ \E c \in Components : LifeRelease(c)
  \/ \E c \in Components, reports \in BOOLEAN : LifeProcessAudio(c, reports)
  \/ \E threw \in BOOLEAN : LifeReadReturns(threw)

LifeInit ==
  /\ WaitInit
  /\ handles = NotStarted

LifeSpec == LifeInit /\ [][LifeNext]_vars

----------------------------------------------------------------------------
(* The voice-activity gate on its own: any caller, any durations *)

MaxGateFrames == 4    \* samples the gate processes in one run

GateConfigs == [silenceDurationMs : {0, 400}, minSpeechDurationMs : {0, 200}]
GateGaps == {0, 200, 400}      \* milliseconds between two reads of Date.now()

\* vad.processAudio(frame): the sample, the clock read, the result in ev; trace
\* keeps whether a voice sample was processed since the last reset and each
\* finalize reported since then
GateProcess(p, dt) ==
  /\ frames < MaxGateFrames
  /\ LET v == VadProcess(p, now + dt)
         heard == IF p >= VoiceThreshold /\ Count(trace, "voice") = 0
                  THEN <<"voice">> ELSE <<>>
     IN /\ speaking' = v.speaking
        /\ speechStartTime' = v.speechStartTime
        /\ silenceStartTime' = v.silenceStartTime
        /\ ev' = Ev("gate", v.shouldFinalize, <<p>>, FALSE, <<>>)
        /\ trace' = trace \o heard \o
                      (IF v.shouldFinalize THEN <<"finalize">> ELSE <<>>)
  /\ now' = now + dt
  /\ frames' = frames + 1
  /\ wire' = NoReq
  /\ UNCHANGED <<sessionVars, clientVars, net, backend, turnVars, sentText, errDelivered,
                 activeTurns, turns, bootVars, pipeVars>>

\* vad.reset()
GateReset ==
  /\ VadReset
  /\ ev' = Ev("reset", FALSE, <<>>, FALSE, <<>>)
  /\ trace' = <<>>
  /\ wire' = NoReq
  /\ UNCHANGED <<sessionVars, now, frames, clientVars, net, backend, turnVars, sentText,
                 errDelivered, activeTurns, turns, bootVars, pipeVars>>

\* a gate just constructed and started (start() calls reset())
VadInit ==
  /\ state = LISTENING_FOR_WAKE_WORD
  /\ targetCharacter = NoChar
  /\ transcriptBuffer = <<>>
  /\ speaking = FALSE
  /\ speechStartTime = 0
  /\ silenceStartTime = 0
  /\ now = 1
  /\ frames = 0
  /\ wsOpen = TRUE
  /\ connected = TRUE
  /\ headlessReady = TRUE
  /\ currentCharacter = NoChar
  /\ messageResolvers = {}
  /\ lastCharacter = NoChar
  /\ net = <<>>
  /\ backend = [mode |-> "idle", pendingSwitch |-> <<>>, chunksLeft |-> 0]
  /\ pc = "none"
  /\ pendingMsg = NoMsg
  /\ responseChunks = <<>>
  /\ text = <<>>
  /\ trace = <<>>
  /\ sentText = <<>>
  /\ errDelivered = FALSE
  /\ activeTurns = 0
  /\ turns = 0
  /\ ev = Quiet
  /\ wire = NoReq
  /\ boot = "running"
  /\ bootEnv = [engine |-> "porcupine", hasKey |-> TRUE, registered |-> Characters,
                run |-> 1]
  /\ bootLog = <<>>
  /\ lastWritten = NoChar
  /\ vadConfig \in GateConfigs
  /\ detector = NewDetector
  /\ pipeHist = NoCalls
  /\ result = NoResult
  /\ audioBuffer = 0
  /\ inflight = <<>>
  /\ waits = NoWaits
  /\ oww = NoProcess
  /\ handles = NotStarted

VadNext ==
  \/ \E p \in Probabilities, dt \in GateGaps : GateProcess(p, dt)
  \/ GateReset

VadSpec == VadInit /\ [][VadNext]_vars

----------------------------------------------------------------------------
(* Streaming feature pipeline: WakewordDetector *)

\* the frame counts the mel engine reports in its output dims: the usual five, or
\* enough for two embeddings in one call
FrameCounts == {MEL_FRAMES_PER_CHUNK, 2 * MEL_STRIDE}

\* what the classifier's output tensor holds: no data at all, or data[0]
RawOutputs == {"missing", "NaN", "Infinity", "-2", "2"}
Thresholds == {0, DefaultThreshold}

\* the first frame of the j-th mel window, frames counted from 1
WindowStart(j) == (j - 1) * MEL_STRIDE + 1

\* for (const frame of melFrames) this.melBuffer.push(frame)
PushMel(buf, first, n) == buf \o [i \in 1..n |-> first + i]

\* a window made of the newest frames of the buffer
MelWindowNewest(buf) == SubSeq(buf, Len(buf) - MEL_WINDOW_SIZE + 1, Len(buf))

\* this.melBuffer.slice(0, MEL_WINDOW_SIZE)
MelWindow(buf) == SubSeq(buf, 1, MEL_WINDOW_SIZE)

\* computeEmbedding(melWindow): an embedding is known by the first and the last
\* frame of the window it was computed from
ComputeEmbedding(w) == <<w[1], w[Len(w)]>>

\* a slide that discards the whole window
SlideMelByWindow(buf) == SubSeq(buf, MEL_WINDOW_SIZE + 1, Len(buf))

\* this.melBuffer.splice(0, MEL_STRIDE)
SlideMel(buf) == SubSeq(buf, MEL_STRIDE + 1, Len(buf))

\* one round of the Step 2 loop: embed the window, push the embedding, slide
EmbedOne(d) ==
  [d EXCEPT
     !.melBuffer = SlideMel(d.melBuffer),
     !.embeddingBuffer =
        Append(d.embeddingBuffer, ComputeEmbedding(MelWindow(d.melBuffer)))]

\* Step 2: while (melBuffer.length >= MEL_WINDOW_SIZE) { embed the first
\* MEL_WINDOW_SIZE frames; push the embedding; slide }
RECURSIVE StageB(_)
StageB(d) == IF Len(d.melBuffer) >= MEL_WINDOW_SIZE THEN StageB(EmbedOne(d)) ELSE d

\* Step 3 runs once per call: if (embeddingBuffer.length >= EMBEDDING_WINDOW_SIZE)
Scores(d) == IF Len(d.embeddingBuffer) >= EMBEDDING_WINDOW_SIZE THEN 1 ELSE 0

\* this.embeddingBuffer.slice(0, EMBEDDING_WINDOW_SIZE), known by its first and last
\* embedding
EmbeddingWindow(buf) == <<buf[1], buf[EMBEDDING_WINDOW_SIZE]>>

\* a Step 3 that scores and removes nothing
StageCKeepsWindow(d) == d

\* a Step 3 that discards the whole window it scored
StageCSlidesWindow(d) ==
  IF Scores(d) = 1
  THEN [d EXCEPT !.embeddingBuffer =
                    SubSeq(@, EMBEDDING_WINDOW_SIZE + 1, Len(@))]
  ELSE d

\* Step 3: embeddingBuffer.shift() after the score
StageC(d) ==
  IF Scores(d) = 1 THEN [d EXCEPT !.embeddingBuffer = Tail(d.embeddingBuffer)] ELSE d

\* detectWakeword: let rawScore = 0, replaced by data[0] when the output has data
RawScore(raw) == IF raw = "missing" THEN "0" ELSE raw

\* 1 / (1 + Math.exp(-rawScore)), in percent
Sigmoid(x) ==
  CASE x = "NaN" -> NaN
    [] x = "Infinity" -> 100
    [] x = "-2" -> 12
    [] x = "0" -> 50
    [] x = "2" -> 88

\* typeof x === 'number' && !isNaN(x) ? x : 0
SafeNumber(x) == IF x = NaN THEN 0 ELSE x

\* detectWakeword: the squashed raw score, 0 in place of NaN
DetectWakeword(raw) == SafeNumber(Sigmoid(RawScore(raw)))

\* the DetectionResult of a call that scored, and null
Result(score, threshold, raw) ==
  [kind |-> "result", score |-> score, threshold |-> threshold,
   detected |-> score >= threshold, raw |-> raw]
NullResult == [NoResult EXCEPT !.kind = "null"]
Raised == [NoResult EXCEPT !.kind = "raised"]

\* the history after a call that pushed numFrames frames and left Stage B with b
HistoryAfter(b, numFrames) ==
  LET new == SubSeq(b.embeddingBuffer, Len(detector.embeddingBuffer) + 1,
                    Len(b.embeddingBuffer))
  IN [calls |-> pipeHist.calls + 1,
      melFrames |-> pipeHist.melFrames + numFrames,
      embeddings |-> pipeHist.embeddings + Len(new),
      scores |-> pipeHist.scores + Scores(b),
      emitted |-> pipeHist.emitted \o new,
      scored |-> IF Scores(b) = 1
                 THEN Append(pipeHist.scored, EmbeddingWindow(b.embeddingBuffer))
                 ELSE pipeHist.scored,
      raised |-> pipeHist.raised]

\* await detector.processAudioChunk(chunk), the calls made one after the other
\* (processAudio awaits each call): the mel engine returns numFrames frames and,
\* if a window of embeddings is scored, the classifier returns raw
ProcessAudioChunk(numFrames, raw) ==
  /\ pipeHist.calls < MaxCalls
  /\ LET pushed == [detector EXCEPT
                      !.melBuffer = PushMel(@, pipeHist.melFrames, numFrames)]
         b == StageB(pushed)
         safeScore == SafeNumber(DetectWakeword(raw))
     IN /\ IF Scores(b) = 1
           THEN /\ detector' = [StageC(b) EXCEPT !.lastScore = safeScore]
                /\ result' = Result(safeScore, detector.threshold, raw)
           ELSE /\ raw = "missing"
                /\ detector' = b
                /\ result' = NullResult
        /\ pipeHist' = HistoryAfter(b, numFrames)
  /\ ev' = Quiet
  /\ wire' = NoReq
  /\ UNCHANGED <<sessionVars, vadVars, now, frames, clientVars, net, backend, turnVars,
                 histVars, bootVars, waits, oww, handles, testerVars>>

\* the engine stages of a call, each an awaited session.run that can reject
EngineStages == {"mel", "embedding", "classifier"}

\* the Step 2 loop after k rounds
RECURSIVE StageBRounds(_, _)
StageBRounds(d, k) == IF k = 0 THEN d ELSE StageBRounds(EmbedOne(d), k - 1)

\* await detector.processAudioChunk(chunk) when the session of one stage rejects:
\* nothing in processAudioChunk catches, so the call rejects with the buffers as
\* they were when the stage was entered. The mel engine fails before any frame
\* is pushed; the embedding engine fails on some round of the loop, its window
\* still in the mel buffer; the classifier fails before the shift.
ProcessAudioChunkThrows(stage, numFrames, rounds) ==
  /\ pipeHist.calls < MaxCalls
  /\ pipeHist.raised < MaxRaised
  /\ LET pushed == [detector EXCEPT
                      !.melBuffer = PushMel(@, pipeHist.melFrames, numFrames)]
         b == IF stage = "embedding" THEN StageBRounds(pushed, rounds) ELSE StageB(pushed)
         h == HistoryAfter(b, numFrames)
     IN CASE stage = "mel" ->
               /\ rounds = 0
               /\ detector' = detector
               /\ pipeHist' = [pipeHist EXCEPT !.calls = @ + 1, !.raised = @ + 1]
          [] stage = "embedding" ->
               /\ Len(pushed.melBuffer) >= MEL_WINDOW_SIZE + rounds * MEL_STRIDE
               /\ detector' = b
               /\ pipeHist' = [h EXCEPT !.scores = pipeHist.scores,
                                        !.scored = pipeHist.scored, !.raised = @ + 1]
          [] stage = "classifier" ->
               /\ rounds = 0
               /\ Scores(b) = 1
               /\ detector' = b
               /\ pipeHist' = [h EXCEPT !.scores = pipeHist.scores,
                                        !.scored = pipeHist.scored, !.raised = @ + 1]
  /\ result' = Raised
  /\ ev' = Quiet
  /\ wire' = NoReq
  /\ UNCHANGED <<sessionVars, vadVars, now, frames, clientVars, net, backend, turnVars,
                 histVars, bootVars, waits, oww, handles, testerVars>>

\* detector.setThreshold(threshold)
SetThreshold(threshold) ==
  /\ detector.threshold # threshold
  /\ detector' = [detector EXCEPT !.threshold = threshold]
  /\ ev' = Quiet
  /\ wire' = NoReq
  /\ UNCHANGED <<sessionVars, vadVars, now, frames, clientVars, net, backend, turnVars,
                 histVars, bootVars, waits, oww, handles, pipeHist, result, testerVars>>

\* detector.reset() between two calls; the counts start anew
DetectorReset ==
  /\ pipeHist.calls > 0
  /\ detector' = [NewDetector EXCEPT !.threshold = detector.threshold]
  /\ pipeHist' = NoCalls
  /\ result' = NoResult
  /\ ev' = Quiet
  /\ wire' = NoReq
  /\ UNCHANGED <<sessionVars, vadVars, now, frames, clientVars, net, backend, turnVars,
                 histVars, bootVars, waits, oww, handles, testerVars>>

PipelineNext ==
  \/ \E numFrames \in FrameCounts, raw \in RawOutputs : ProcessAudioChunk(numFrames, raw)
  \/ \E threshold \in Thresholds : SetThreshold(threshold)
  \/ DetectorReset

\* a detector after initialize(), its buffers empty
PipelineInit == Init /\ currentCharacter = NoChar

\* the detector fed by one caller
PipelineSpec == PipelineInit /\ [][PipelineNext]_vars

PipelineFailNext ==
  \/ \E numFrames \in FrameCounts, raw \in RawOutputs : ProcessAudioChunk(numFrames, raw)
  \/ \E stage \in EngineStages, numFrames \in FrameCounts, rounds \in 0..1 :
       ProcessAudioChunkThrows(stage, numFrames, rounds)

PipelineFailInit == PipelineInit

\* the detector fed by one caller, its engines failing now and then
PipelineFailSpec == PipelineFailInit /\ [][PipelineFailNext]_vars

----------------------------------------------------------------------------
(* The live tester: the audio worklet's messages and the calls they start *)

\* the chunks of the usual frames that went through the detector, each call
\* settled before the next chunk was cut: the detector is one frame short of a
\* mel window and one embedding short of a classification window
WarmCalls == 39
WarmEmbeddings == EMBEDDING_WINDOW_SIZE - 1

WarmDetector ==
  [NewDetector EXCEPT
     !.melBuffer =
        [i \in 1..(WarmCalls * MEL_FRAMES_PER_CHUNK - WarmEmbeddings * MEL_STRIDE) |->
           WarmEmbeddings * MEL_STRIDE + i],
     !.embeddingBuffer =
        [j \in 1..WarmEmbeddings |->
           <<WindowStart(j), WindowStart(j) + MEL_WINDOW_SIZE - 1>>]]

WarmHistory ==
  [NoCalls EXCEPT
     !.calls = WarmCalls,
     !.melFrames = WarmCalls * MEL_FRAMES_PER_CHUNK,
     !.embeddings = WarmEmbeddings,
     !.emitted = WarmDetector.embeddingBuffer]

\* a call of processAudioChunk suspended at an await: the chunk it was given, the
\* engine it waits for, and the window it sliced for that engine
Call(chunk, at, melWindow, embeddingWindow) ==
  [chunk |-> chunk, pc |-> at, melWindow |-> melWindow,
   embeddingWindow |-> embeddingWindow]

\* where a call goes after Step 1 or a round of Step 2, the detector being d:
\* into a round of the Step 2 loop, into Step 3, or to return null
NextAwait(chunk, d) ==
  IF Len(d.melBuffer) >= MEL_WINDOW_SIZE
  THEN Call(chunk, "embedding", MelWindow(d.melBuffer), <<>>)
  ELSE IF Scores(d) = 1
       THEN Call(chunk, "classifier", <<>>, EmbeddingWindow(d.embeddingBuffer))
       ELSE Call(chunk, "return", <<>>, <<>>)

\* each session settles its runs in the order they were asked for
FirstOfItsSession(i) == \A k \in 1..(i - 1) : inflight[k].pc # inflight[i].pc

\* the pending calls but the i-th
Others(i) == SubSeq(inflight, 1, i - 1) \o SubSeq(inflight, i + 1, Len(inflight))

\* while (audioBuffer.length >= CHUNK_SAMPLES): cut a chunk and await
\* detector.processAudioChunk(chunk), which runs up to its first await; or end
HandlerLoop(samples, others, h) ==
  IF samples >= CHUNK_SAMPLES
  THEN /\ audioBuffer' = samples - CHUNK_SAMPLES
       /\ inflight' = Append(others, Call(h.calls + 1, "mel", <<>>, <<>>))
       /\ pipeHist' = [h EXCEPT !.calls = @ + 1]
  ELSE /\ audioBuffer' = samples
       /\ inflight' = others
       /\ pipeHist' = h

\* the call of this chunk goes on with the detector d: to its next await, or it
\* returns null and the handler's loop goes on
GoOn(chunk, d, others, h) ==
  /\ detector' = d
  /\ IF NextAwait(chunk, d).pc = "return"
     THEN /\ result' = NullResult
          /\ HandlerLoop(audioBuffer, others, h)
     ELSE /\ inflight' = Append(others, NextAwait(chunk, d))
          /\ pipeHist' = h
          /\ UNCHANGED <<result, audioBuffer>>

\* workletNode.port.onmessage: one message of the worklet; nothing keeps it from
\* running while an earlier handler is suspended in processAudioChunk
OnMessage ==
  /\ (pipeHist.calls - WarmCalls) * CHUNK_SAMPLES + audioBuffer
       < MaxChunksFed * CHUNK_SAMPLES
  /\ HandlerLoop(audioBuffer + QuantumSamples, inflight, pipeHist)
  /\ ev' = Quiet
  /\ wire' = NoReq
  /\ UNCHANGED <<sessionVars, vadVars, now, frames, clientVars, net, backend, turnVars,
                 histVars, bootVars, waits, oww, handles, detector, result>>

\* processAudioChunk after await computeMelSpectrogram: push the frames of the
\* chunk, then test the Step 2 loop
MelReturns(i) ==
  /\ i \in DOMAIN inflight
  /\ inflight[i].pc = "mel"
  /\ FirstOfItsSession(i)
  /\ GoOn(inflight[i].chunk,
          [detector EXCEPT
             !.melBuffer = PushMel(@, (inflight[i].chunk - 1) * MEL_FRAMES_PER_CHUNK,
                                   MEL_FRAMES_PER_CHUNK)],
          Others(i),
          [pipeHist EXCEPT !.melFrames = @ + MEL_FRAMES_PER_CHUNK])
  /\ ev' = Quiet
  /\ wire' = NoReq
  /\ UNCHANGED <<sessionVars, vadVars, now, frames, clientVars, net, backend, turnVars,
                 histVars, bootVars, waits, oww, handles>>

\* processAudioChunk after await computeEmbedding(melWindow): push the embedding
\* of the window sliced before the await, splice the buffer as it is now, and
\* test the loop again
EmbeddingReturns(i) ==
  /\ i \in DOMAIN inflight
  /\ inflight[i].pc = "embedding"
  /\ FirstOfItsSession(i)
  /\ LET embedding == ComputeEmbedding(inflight[i].melWindow)
     IN GoOn(inflight[i].chunk,
             [detector EXCEPT !.melBuffer = SlideMel(@),
                              !.embeddingBuffer = Append(@, embedding)],
             Others(i),
             [pipeHist EXCEPT !.embeddings = @ + 1, !.emitted = Append(@, embedding)])
  /\ ev' = Quiet
  /\ wire' = NoReq
  /\ UNCHANGED <<sessionVars, vadVars, now, frames, clientVars, net, backend, turnVars,
                 histVars, bootVars, waits, oww, handles>>

\* processAudioChunk after await detectWakeword(embeddingWindow): shift, report
\* the score and return; the handler's loop goes on
ClassifierReturns(i, raw) ==
  /\ i \in DOMAIN inflight
  /\ inflight[i].pc = "classifier"
  /\ FirstOfItsSession(i)
  /\ LET safeScore == SafeNumber(DetectWakeword(raw))
     IN /\ detector' = [detector EXCEPT
                          !.embeddingBuffer = IF @ = <<>> THEN @ ELSE Tail(@),
                          !.lastScore = safeScore]
        /\ result' = Result(safeScore, detector.threshold, raw)
        /\ HandlerLoop(audioBuffer, Others(i),
                       [pipeHist EXCEPT
                          !.scores = @ + 1,
                          !.scored = Append(@, inflight[i].embeddingWindow)])
  /\ ev' = Quiet
  /\ wire' = NoReq
  /\ UNCHANGED <<sessionVars, vadVars, now, frames, clientVars, net, backend, turnVars,
                 histVars, bootVars, waits, oww, handles>>

OverlapNext ==
  \/ OnMessage
  \/ \E i \in 1..MaxChunksFed : MelReturns(i)
  \/ \E i \in 1..MaxChunksFed : EmbeddingReturns(i)
  \/ \E i \in 1..MaxChunksFed, raw \in RawOutputs : ClassifierReturns(i, raw)

\* the live tester after WarmCalls chunks, no call pending
OverlapInit ==
  /\ state = LISTENING_FOR_WAKE_WORD
  /\ targetCharacter = NoChar
  /\ transcriptBuffer = <<>>
  /\ speaking = FALSE
  /\ speechStartTime = 0
  /\ silenceStartTime = 0
  /\ now = 1
  /\ frames = 0
  /\ wsOpen = TRUE
  /\ connected = TRUE
  /\ headlessReady = TRUE
  /\ currentCharacter = NoChar
  /\ messageResolvers = {}
  /\ lastCharacter = NoChar
  /\ net = <<>>
  /\ backend = [mode |-> "idle", pendingSwitch |-> <<>>, chunksLeft |-> 0]
  /\ pc = "none"
  /\ pendingMsg = NoMsg
  /\ responseChunks = <<>>
  /\ text = <<>>
  /\ trace = <<>>
  /\ sentText = <<>>
  /\ errDelivered = FALSE
  /\ activeTurns = 0
  /\ turns = 0
  /\ ev = Quiet
  /\ wire = NoReq
  /\ boot = "running"
  /\ bootEnv = [engine |-> "porcupine", hasKey |-> TRUE, registered |-> Characters,
                run |-> 1]
  /\ bootLog = <<>>
  /\ lastWritten = NoChar
  /\ vadConfig = MainConfig
  /\ detector = WarmDetector
  /\ pipeHist = WarmHistory
  /\ result = NullResult
  /\ audioBuffer = 0
  /\ inflight = <<>>
  /\ waits = NoWaits
  /\ oww = NoProcess
  /\ handles = NotStarted

\* the live tester: messages of the worklet and the settling of the engines' runs
OverlapSpec == OverlapInit /\ [][OverlapNext]_vars

\* what the event loop runs once it is runnable: socket events, timers and the
\* continuations of settled promises (the backend and the microphone are not bound
\* to act)
ClientStep ==
  \/ Deliver
  \/ AfterSwitch
  \/ SwitchTimeout
  \/ Resume
  \/ \E ok \in BOOLEAN : SynthReturn(ok)
  \/ \E ok \in BOOLEAN : PlayReturn(ok)

FairSpec == Init /\ [][Next]_vars /\ WF_vars(ClientStep)

----------------------------------------------------------------------------
(* Properties *)

Busy == {LISTENING_FOR_SPEECH, PROCESSING, SPEAKING}

\* C1: in every session state other than LISTENING_FOR_WAKE_WORD a wake-word
\* callback, for whatever name, leaves the session state, the active persona and
\* the transcript accumulator as they were.
C1_WakeIgnoredOutsideIdle ==
  [][(ev'.h = "wake" /\ state \in Busy) => UNCHANGED sessionVars]_vars

\* C1 happens: a wake detection was handled while a response was awaited
C1_Witness == ev.h = "wake" /\ state = SPEAKING /\ pc = "listening"

\* C2: at most one processUserInput is between its entry and its finally block;
\* the frame handler enters it only when none is running, and a wake detection
\* during a turn changes nothing of the turn.
C2_SingleTurnInFlight ==
  [][/\ activeTurns' <= 1
     /\ (ev'.h = "frame" /\ state' # LISTENING_FOR_SPEECH) => activeTurns = 0
     /\ (ev'.h = "wake" /\ activeTurns > 0) =>
           UNCHANGED <<sessionVars, turnVars, activeTurns>>]_vars

\* C2 happens: a wake detection was handled while the turn waited for the
\* acknowledgement of its persona switch, and the turn is still there
C2_Witness ==
  ev.h = "wake" /\ activeTurns = 1 /\ pc = "awaitSwitch" /\ state = PROCESSING

\* C3: a wake detection for name c in LISTENING_FOR_WAKE_WORD makes c the active
\* persona, moves to LISTENING_FOR_SPEECH, empties the accumulator and resets the
\* gate: speaking false, both time stamps cleared.
C3_WakeStartsCapture ==
  [][\A c \in Characters :
       ((DetectionEvent(c) \/ FrameIdle(c)) /\ state = LISTENING_FOR_WAKE_WORD) =>
         /\ state' = LISTENING_FOR_SPEECH
         /\ targetCharacter' = c
         /\ transcriptBuffer' = <<>>
         /\ speaking' = FALSE
         /\ speechStartTime' = 0
         /\ silenceStartTime' = 0]_vars

\* C3 happens: a capture started after an earlier capture had run the gate up to
\* its finalize (the socket is closed, so this capture is not the counted one)
C3_Witness ==
  /\ ev.h = "wake"
  /\ state = LISTENING_FOR_SPEECH
  /\ ~wsOpen
  /\ turns >= 1
  /\ trace = <<>>

\* the gate reported finalize on the frame just handled while the accumulator,
\* after the recognizer ran, held no text
EmptyFinalize == ev.h = "frame" /\ ev.fin /\ Trim(ev.acc) = <<>>

C5_FailureAbortsTurn ==
  /\ errDelivered =>
       \/ pc = "resuming" /\ pendingMsg.type = "error"
       \/ /\ pc = "none"
          /\ state = LISTENING_FOR_WAKE_WORD
          /\ targetCharacter = NoChar
          /\ Count(trace, "synth") = 0
  /\ (trace # <<>> /\ Last(trace) = "idle" /\ Count(trace, "end") = 0) =>
       (Count(trace, "synth") = 0 /\ Count(trace, "play") = 0)
  /\ Count(trace, "submit") <= 1

\* C6: a submitted turn that waits for the backend with nothing on its way either
\* gets a further message or, by a deadline, returns to LISTENING_FOR_WAKE_WORD.
C6_SilentBackendTimesOut ==
  (pc = "listening" /\ net = <<>>) ~> (state = LISTENING_FOR_WAKE_WORD \/ net # <<>>)

\* C7: when the socket closes while the response of a submitted turn is awaited,
\* the turn is aborted and the session returns to LISTENING_FOR_WAKE_WORD.
C7_CloseAbortsTurn ==
  (~wsOpen /\ pc \in {"listening", "resuming"}) ~> (state = LISTENING_FOR_WAKE_WORD)

\* C8: the text handed to the synthesizer is the concatenation of all increments
\* the backend sent for the turn, and once the backend has finished its reply and
\* the socket has emitted all of it, the consumer is not left waiting.
C8_SynthTextIsAllIncrements ==
  /\ wire.req = "synthesize" => wire.text = sentText
  /\ ~(pc = "listening" /\ backend.mode = "idle" /\ net = <<>>)

\* the events that may directly follow event e within a turn
After(e) ==
  CASE e = "flush" -> {"switchReq", "submit", "idle"}
    [] e = "switchReq" -> {"switchAck", "idle"}
    [] e = "switchAck" -> {"submit", "idle"}
    [] e = "submit" -> {"chunk", "end", "idle"}
    [] e = "chunk" -> {"chunk", "end", "idle"}
    [] e = "end" -> {"synth", "idle"}
    [] e = "synth" -> {"play", "idle"}
    [] e = "play" -> {"idle"}
    [] OTHER -> {}

TurnOrder(tr) ==
  /\ tr # <<>> => tr[1] = "flush"
  /\ \A i \in 1..(Len(tr) - 1) : tr[i + 1] \in After(tr[i])

\* C9: the events of a turn come in the order flush, switch request and its
\* acknowledgement (requested only if the active persona differs from the
\* client's), one submission, increments and end marker, one synthesis, one play,
\* return to LISTENING_FOR_WAKE_WORD, a turn that fails stopping early; the text
\* submitted is the trimmed concatenation of the accumulator and the flush result.
C9_TurnEventOrder ==
  [][/\ TurnOrder(trace')
     /\ (ev'.h = "frame" /\ ev'.flushed) =>
          /\ Count(trace', "switchReq") = 1 => currentCharacter # targetCharacter
          /\ Count(trace', "submit") = 1 => currentCharacter = targetCharacter
          /\ pc' = "awaitSwitch" => text' = Trim(ev'.acc \o ev'.flush)
     /\ (pc \in {"awaitSwitch", "switched"} /\ pc' \in {"awaitSwitch", "switched"}) =>
          text' = text
     /\ wire'.req = "message" =>
          wire'.text = (IF ev'.h = "frame" THEN Trim(ev'.acc \o ev'.flush) ELSE text)]_vars

\* C9 happens: a turn with a persona switch ran through to its playback
C9_Witness ==
  trace = <<"flush", "switchReq", "switchAck", "submit", "chunk", "end", "synth", "play",
            "idle">>

\* C10: whenever a turn leaves synthesis or playback other than from synthesis
\* into playback, by completion or by a throw, the session is in
\* LISTENING_FOR_WAKE_WORD with no active persona and an empty accumulator.
C10_SpeechEndsInIdle ==
  [][(pc \in {"synth", "play"} /\ pc' \notin {"synth", "play"}) =>
       /\ state' = LISTENING_FOR_WAKE_WORD
       /\ targetCharacter' = NoChar
       /\ transcriptBuffer' = <<>>]_vars

\* C10 happens: synthesis threw and the turn ended without playback
C10_Witness ==
  /\ state = LISTENING_FOR_WAKE_WORD
  /\ trace # <<>>
  /\ Last(trace) = "idle"
  /\ Count(trace, "synth") = 1
  /\ Count(trace, "play") = 0

\* C11: a frame that arrives in PROCESSING or SPEAKING reaches no component and
\* is kept nowhere: the session variables, the gate, the client, the turn and the
\* messages in flight are as before; and in these states a frame can be handled
\* whenever the event loop is between tasks.
C11_FrameDroppedDuringTurn ==
  [][/\ ev'.h = "dropped" =>
          /\ state \in {PROCESSING, SPEAKING}
          /\ UNCHANGED <<sessionVars, vadVars, now, frames, clientVars, net, backend,
                         turnVars, histVars>>
          /\ wire' = NoReq
     /\ (state \in {PROCESSING, SPEAKING} /\ MacrotaskBoundary) => ENABLED FrameDropped]_vars

\* C11 happens: a frame was handled while the turn waited for its persona switch
C11_Witness == ev.h = "dropped" /\ state = PROCESSING /\ pc = "awaitSwitch"

\* C12: a transcript callback delivered in PROCESSING, SPEAKING or
\* LISTENING_FOR_WAKE_WORD changes no session variable, nothing of the running
\* turn and nothing of the gate; the accumulator is empty before and after, so the
\* next capture starts without the late text.
C12_LateTranscriptIgnored ==
  [][(ev'.h = "transcript" /\ state # LISTENING_FOR_SPEECH) =>
       /\ UNCHANGED <<sessionVars, vadVars, turnVars, clientVars, net, backend>>
       /\ transcriptBuffer' = <<>>]_vars

\* C12 happens: a transcript was delivered while the response was awaited
C12_Witness == ev.h = "transcript" /\ state = SPEAKING /\ pc = "listening"

\* C13: a turn requests a persona switch exactly when the active persona differs
\* from the client's (and the request can be sent); the acknowledgement that lets
\* the turn go on is the one of that switch; the last-persona fact is written
\* then, with the persona switched to, and at no other step; a turn whose switch
\* failed or timed out submits nothing.
C13_SwitchAndLastPersona ==
  [][/\ (ev'.h = "frame" /\ ev'.flushed) =>
          /\ wire'.req = "switch" <=> (currentCharacter # targetCharacter /\ wsOpen)
          /\ wire'.req = "switch" => wire'.name = targetCharacter
     /\ pc' = "switched" => currentCharacter' = targetCharacter'
     /\ (pc = "switched" /\ pc' # "switched") => lastCharacter' = targetCharacter
     /\ pc # "switched" => lastCharacter' = lastCharacter
     /\ (pc = "awaitSwitch" /\ pc' = "none") =>
          (wire'.req = "none" /\ Count(trace', "submit") = 0)]_vars

\* position of the first event e in a log, 0 if there is none
Pos(log, e) ==
  IF Count(log, e) = 0 THEN 0 ELSE CHOOSE i \in 1..Len(log) : log[i] = e /\ \A j \in 1..(i - 1) : log[j] # e

\* C14: getLastCharacter returns what setLastCharacter was last given, in this
\* run or an earlier one, and null if nothing was ever written; a run that finds
\* a fact requests the switch to it, and the wake-word engine is started and the
\* first frame handled only after the acknowledgement (no earlier than the read
\* that found no fact).
C14_LastPersonaRemembered ==
  /\ GetLastCharacter(lastCharacter) = lastWritten
  /\ boot = "restoring" => (lastCharacter # NoChar /\ Last(bootLog) = "switchReq")
  /\ (boot = "restored" /\ lastCharacter # NoChar) =>
       (Last(bootLog) = "switchAck" /\ currentCharacter = lastCharacter)
  /\ \A e \in {"wakeStart", "audioStart", "frame"} :
       Count(bootLog, e) > 0 =>
         \/ Count(bootLog, "switchAck") = 1 /\ Pos(bootLog, "switchAck") < Pos(bootLog, e)
         \/ Count(bootLog, "noFact") = 1 /\ Count(bootLog, "switchReq") = 0

\* C14 happens: a later run found the fact an earlier run wrote, switched to it
\* and handled its first frame
C14_Witness ==
  /\ bootEnv.run = 2
  /\ boot = "running"
  /\ bootLog = <<"connect", "switchReq", "switchAck", "wakeStart", "sttStart", "vadStart",
                 "audioStart", "frame">>
  /\ currentCharacter = lastWritten
  /\ lastWritten \in Characters

C15_EngineFailureKeepsFrames ==
  ev.h = "threw" =>
    /\ boot = "running"
    /\ state \in {LISTENING_FOR_WAKE_WORD, LISTENING_FOR_SPEECH}
    /\ wire = NoReq
    /\ state = LISTENING_FOR_WAKE_WORD => ENABLED FrameIdle(NoChar)
    /\ (state = LISTENING_FOR_SPEECH /\ frames < MaxFrames) =>
         \A p \in Probabilities : ENABLED FrameCapture(<<>>, <<>>, p, 400, <<>>)

\* C15 happens: the recognizer threw inside its processAudio after it had delivered
\* a partial transcript, in a capture whose gate had already heard speech
C15_Witness ==
  /\ ev.h = "threw"
  /\ state = LISTENING_FOR_SPEECH
  /\ transcriptBuffer # <<>>
  /\ speaking
  /\ frames < MaxFrames

\* C17: the gate reports finalize on a frame only if speaking has begun: the flag
\* is set and a sample at or above the voice threshold was processed since the
\* last reset.
C17_FinalizeOnlyAfterSpeech ==
  (ev.h = "gate" /\ ev.fin) => (speaking /\ Count(trace, "voice") = 1)

\* C17 happens: with the durations main() uses, the gate reports its first finalize
\* of an utterance on the last sample of the run
C17_Witness ==
  /\ ev.h = "gate" /\ ev.fin
  /\ frames = MaxGateFrames
  /\ trace = <<"voice", "finalize">>
  /\ vadConfig = MainConfig

\* C18 as stated: between two resets the gate reports finalize on at most one frame
C18_FinalizeOncePerReset == Count(trace, "finalize") <= 1

\* C18: the finalize output is a level, not an edge: on the frame after a frame
\* that reported finalize, with no reset between, the gate reports finalize again
\* unless that frame's sample is at or above the voice threshold.
C18_FinalizeStaysUntilVoice ==
  [][(ev.h = "gate" /\ ev.fin /\ ev'.h = "gate" /\ ev'.acc[1] < VoiceThreshold)
       => ev'.fin]_vars

\* C18 happens: two frames of one utterance reported finalize, with the durations
\* main() uses
C18_Witness ==
  /\ Count(trace, "finalize") = 2
  /\ ev.h = "gate" /\ ev.fin
  /\ vadConfig = MainConfig

\* C19: on every frame finalize is reported exactly when the gate is speaking, the
\* speech has lasted the minimum duration, a silence timer is running and the
\* silence has lasted the silence duration
C19_FinalizeExactlyWhen ==
  ev.h = "gate" =>
    (ev.fin <=> /\ speaking
                /\ now - speechStartTime >= vadConfig.minSpeechDurationMs
                /\ silenceStartTime > 0
                /\ now - silenceStartTime >= vadConfig.silenceDurationMs)

\* the count the streaming pipeline is specified to have emitted after n calls of
\* MEL_FRAMES_PER_CHUNK frames each
ExpectedEmbeddings(n) ==
  IF n * MEL_FRAMES_PER_CHUNK < MEL_WINDOW_SIZE THEN 0
  ELSE ((n * MEL_FRAMES_PER_CHUNK - MEL_WINDOW_SIZE) \div MEL_STRIDE) + 1

\* C20: after N calls that each contributed MEL_FRAMES_PER_CHUNK mel frames the
\* detector has computed 0 embeddings if N * 5 < 76 and
\* floor((N * 5 - 76) / 8) + 1 embeddings otherwise.
C20_EmbeddingCount ==
  pipeHist.melFrames = pipeHist.calls * MEL_FRAMES_PER_CHUNK =>
    pipeHist.embeddings = ExpectedEmbeddings(pipeHist.calls)

\* C20 happens: twenty calls of five frames have produced four embeddings
C20_Witness ==
  /\ pipeHist.calls = 20
  /\ pipeHist.melFrames = 100
  /\ pipeHist.embeddings = 4
  /\ detector.embeddingBuffer = <<<<1, 76>>, <<9, 84>>, <<17, 92>>, <<25, 100>>>>

\* the calls so far each brought the usual MEL_FRAMES_PER_CHUNK frames
AllUsualChunks == pipeHist.melFrames = pipeHist.calls * MEL_FRAMES_PER_CHUNK

\* C21 as stated: once EMBEDDING_WINDOW_SIZE embeddings have been emitted, as many
\* scores as embeddings have been emitted.
C21_ScoresEqualEmbeddings ==
  pipeHist.embeddings >= EMBEDDING_WINDOW_SIZE =>
    pipeHist.scores = pipeHist.embeddings

\* C21 amended: every score removes one embedding from the buffer, so the scores
\* and the embeddings still buffered add up to the embeddings emitted; fed the
\* usual chunks, the scores trail the embeddings by EMBEDDING_WINDOW_SIZE - 1 once
\* the first classification window is reachable.
C21_ScoresTrailEmbeddings ==
  /\ pipeHist.scores + Len(detector.embeddingBuffer) = pipeHist.embeddings
  /\ AllUsualChunks /\ pipeHist.embeddings >= EMBEDDING_WINDOW_SIZE =>
       pipeHist.scores = pipeHist.embeddings - (EMBEDDING_WINDOW_SIZE - 1)

C21_Witness ==
  /\ AllUsualChunks
  /\ pipeHist.embeddings = EMBEDDING_WINDOW_SIZE + 1
  /\ pipeHist.scores = 2
  /\ Len(detector.embeddingBuffer) = EMBEDDING_WINDOW_SIZE - 1

\* C23: after a processing call has returned, the mel buffer holds fewer than
\* MEL_WINDOW_SIZE frames and the embedding buffer fewer than
\* EMBEDDING_WINDOW_SIZE embeddings, whatever frame count the mel engine reported.
C23_BuffersDrained ==
  result.kind \in {"null", "result"} =>
    /\ Len(detector.melBuffer) < MEL_WINDOW_SIZE
    /\ Len(detector.embeddingBuffer) < EMBEDDING_WINDOW_SIZE

\* a call of processAudioChunk has returned in this step
CallReturned == pipeHist'.calls = pipeHist.calls + 1

\* C22: no score is produced before the embedding buffer first holds
\* EMBEDDING_WINDOW_SIZE embeddings; from then on a call emits exactly as many
\* scores as it emits embeddings (none skipped, none without a new embedding).
C22_OneScorePerNewEmbedding ==
  [][CallReturned =>
       LET newEmbeddings == pipeHist'.embeddings - pipeHist.embeddings
           newScores == pipeHist'.scores - pipeHist.scores
       IN IF pipeHist'.embeddings < EMBEDDING_WINDOW_SIZE
          THEN newScores = 0
          ELSE newScores = newEmbeddings]_vars

\* C26: the k-th score is computed from embeddings k .. k + EMBEDDING_WINDOW_SIZE - 1
\* of the emission order, the oldest in the buffer, and each score removes
\* exactly the oldest embedding: the buffer holds what was emitted, less one
\* embedding per score.
C26_StageCSlidesByOne ==
  /\ Len(pipeHist.scored) = pipeHist.scores
  /\ \A k \in 1..Len(pipeHist.scored) :
       pipeHist.scored[k] =
         <<pipeHist.emitted[k], pipeHist.emitted[k + EMBEDDING_WINDOW_SIZE - 1]>>
  /\ detector.embeddingBuffer =
       SubSeq(pipeHist.emitted, pipeHist.scores + 1, Len(pipeHist.emitted))

C26_Witness ==
  /\ pipeHist.scores = 2
  /\ pipeHist.scored[1] = <<<<1, 76>>, <<121, 196>>>>
  /\ pipeHist.scored[2] = <<<<9, 84>>, <<129, 204>>>>
  /\ detector.embeddingBuffer[1] = <<17, 92>>

\* C27: the j-th embedding is computed from the MEL_WINDOW_SIZE consecutive mel
\* frames that start MEL_STRIDE after the start of the one before, and each
\* embedding discards exactly the MEL_STRIDE oldest frames: the mel buffer holds,
\* in arrival order, every frame from the start of the next window on.
C27_StageBSlidesByStride ==
  /\ Len(pipeHist.emitted) = pipeHist.embeddings
  /\ \A j \in 1..Len(pipeHist.emitted) :
       pipeHist.emitted[j] = <<WindowStart(j), WindowStart(j) + MEL_WINDOW_SIZE - 1>>
  /\ detector.melBuffer =
       [i \in 1..(pipeHist.melFrames - pipeHist.embeddings * MEL_STRIDE) |->
          pipeHist.embeddings * MEL_STRIDE + i]

C27_Witness ==
  /\ pipeHist.calls = 6
  /\ pipeHist.melFrames = 96
  /\ pipeHist.emitted = <<<<1, 76>>, <<9, 84>>, <<17, 92>>>>
  /\ Len(detector.melBuffer) = MEL_WINDOW_SIZE - 4
  /\ detector.melBuffer[1] = 25

\* the classifier outputs that are not a finite number
Abnormal == {"missing", "NaN", "Infinity"}

\* C28: every reported score is a number in [0, 1] (0..100 percent); a NaN,
\* missing or overflowing classifier output is reported as the score 0, and
\* such a score is reported as detected only if the threshold is 0.
C28_ScoreSafe ==
  result.kind = "result" =>
    /\ result.score \in 0..100
    /\ detector.lastScore = result.score
    /\ result.raw \in Abnormal =>
         /\ result.score = 0
         /\ result.detected => result.threshold = 0

\* C24: a processing call in which an engine stage fails returns to its caller
\* without raising, and leaves no window in the mel buffer to be tried again by
\* the next call.
C24_FailsSoft ==
  /\ result.kind # "raised"
  /\ Len(detector.melBuffer) < MEL_WINDOW_SIZE

\* C25: for every interleaving of the live tester's message handlers, the mel
\* buffer holds consecutive frames in arrival order and the j-th embedding
\* emitted is that of the j-th mel window: no window is embedded twice, none is
\* left out.
C25_EachWindowOnceInOrder ==
  /\ \A i \in 1..(Len(detector.melBuffer) - 1) :
       detector.melBuffer[i + 1] = detector.melBuffer[i] + 1
  /\ \A j \in 1..Len(pipeHist.emitted) : pipeHist.emitted[j][1] = WindowStart(j)

\* where the running turn is suspended: waiting for the persona switch; waiting
\* for the response or one of its increments; synthesizing or playing
Switching == {"awaitSwitch", "switched"}
Streaming == {"listening", "resuming"}
Voicing == {"synth", "play"}

C30_EndpointStartsTurn ==
  ev.h = "endpoint" /\ Trim(ev.acc) # <<>> => state # LISTENING_FOR_SPEECH

\* the sample the gate processed in the last step
Sample == ev.acc[1]

\* between the two thresholds
InBand(p) == SilenceThreshold <= p /\ p < VoiceThreshold

\* C31: a sample at or above the voice threshold leaves no silence timer running
\* and reports no finalize; a finalize is reported only while a silence timer
\* is running that was started at least the silence duration ago.
C31_VoiceCancelsTimer ==
  ev.h = "gate" =>
    /\ Sample >= VoiceThreshold => silenceStartTime = 0 /\ ~ev.fin
    /\ ev.fin => /\ silenceStartTime > 0
                 /\ now - silenceStartTime >= vadConfig.silenceDurationMs

\* C32: a sample in the band between the two thresholds changes none of the
\* gate's fields, and a sample below the silence threshold leaves a running
\* silence timer at its first value.
C32_BandChangesNothing ==
  [][ev'.h = "gate" =>
       /\ InBand(ev'.acc[1]) => UNCHANGED vadVars
       /\ ev'.acc[1] < SilenceThreshold /\ speaking /\ silenceStartTime > 0 =>
            UNCHANGED vadVars]_vars

C32_Witness ==
  /\ ev.h = "gate"
  /\ InBand(Sample)
  /\ speaking
  /\ silenceStartTime > 0
  /\ now > silenceStartTime

\* C37: between two resets, once the gate is speaking every later sample leaves
\* it speaking and leaves speech-start at its first value.
C37_SpeakingMonotone ==
  [][ev'.h = "gate" /\ speaking =>
       speaking' /\ speechStartTime' = speechStartTime]_vars

C37_Witness ==
  /\ ev.h = "gate"
  /\ Sample >= VoiceThreshold
  /\ speaking
  /\ now >= speechStartTime + SilenceDurationMs + MinSpeechDurationMs
  /\ Count(trace, "finalize") > 0

\* C33: connect() is settled before more than 30 seconds have passed; it has
\* resolved only after a status message with headlessReady = true was handled,
\* on a socket that is open and ready; a connection that never became ready, or
\* that has closed, is not reported as connected.
C33_ConnectDeadline ==
  /\ boot = "connecting" => now < ConnectTimeoutMs
  /\ now <= ConnectTimeoutMs
  /\ boot = "connected" =>
       /\ Count(bootLog, "ready") > 0
       /\ headlessReady /\ wsOpen /\ connected
       /\ Count(bootLog, "close") = 0

C33_Witness ==
  /\ boot = "exited"
  /\ now = ConnectTimeoutMs
  /\ bootLog = <<"connect", "open", "timeout">>

\* C34: at every handler boundary the active persona is absent exactly when the
\* session listens for the wake word, and outside a capture the transcript
\* accumulator is empty.
C34_SessionInvariant ==
  MacrotaskBoundary =>
    /\ targetCharacter = NoChar <=> state = LISTENING_FOR_WAKE_WORD
    /\ state \in {LISTENING_FOR_WAKE_WORD, PROCESSING, SPEAKING} =>
         transcriptBuffer = <<>>

C34_Witness ==
  /\ state = SPEAKING
  /\ pc = "play"
  /\ targetCharacter \in Characters
  /\ transcriptBuffer = <<>>
  /\ Count(trace, "flush") > 0

\* C35: whenever a turn is submitted to the backend, the persona the backend
\* last acknowledged to the client is the session's active persona.
C35_SubmittedToActivePersona ==
  wire.req = "message" => currentCharacter = targetCharacter

\* C36: no call of waitForMessage is pending past its deadline; a message of the
\* awaited type leaves no call pending that was pending when it was handled;
\* and a resolver is in the map exactly while a call is pending.
C36_WaitSettlesOnce ==
  /\ \A i \in DOMAIN waits.calls :
       waits.calls[i].status = "pending" => now <= waits.calls[i].deadline
  /\ ev.h = "message" /\ ev.acc = <<AwaitedType>> =>
       \A i \in DOMAIN waits.calls : waits.calls[i].status # "pending"
  /\ AwaitedType \in messageResolvers <=>
       \E i \in DOMAIN waits.calls : waits.calls[i].status = "pending"

\* all the chunks written so far, one after another
RECURSIVE Flat(_)
Flat(ws) == IF ws = <<>> THEN <<>> ELSE Head(ws) \o Flat(Tail(ws))

\* C38: what OpenWakeWord.processAudio wrote, followed by what it still buffers,
\* is exactly the frames it was passed while the subprocess existed and the
\* detector was running, in order; every write has frameSize*2 bytes; fewer than
\* frameSize*2 bytes stay buffered; and a frame passed without subprocess or
\* when stopped changes neither the buffer nor what was written
C38_RechunkWithoutLoss ==
  [][/\ Flat(oww'.writes) \o oww'.audioBuffer = oww'.accepted
     /\ \A i \in DOMAIN oww'.writes : Len(oww'.writes[i]) = FrameSize * 2
     /\ Len(oww'.audioBuffer) < FrameSize * 2
     /\ (oww'.fed > oww.fed /\ (~oww.process \/ ~oww.running))
          => /\ oww'.audioBuffer = oww.audioBuffer
             /\ oww'.writes = oww.writes]_vars

\* a frame was accepted after another was discarded: more than one chunk has
\* been written and samples are left over in the buffer
C38_Witness ==
  /\ oww.last = "accepted"
  /\ Len(oww.writes) >= 2
  /\ oww.audioBuffer # <<>>
  /\ Len(oww.accepted) < oww.fed

\* C39: when the turn goes on from an end marker and the increments received join
\* to the empty text, it asks nothing of the synthesizer or the sink and ends in
\* LISTENING_FOR_WAKE_WORD with the persona cleared.
C39_EmptyResponseIsSilent ==
  [][(/\ pc = "resuming" /\ pendingMsg.type = "end" /\ Join(responseChunks) = <<>>
      /\ pc' # "resuming") =>
       /\ wire'.req \notin {"synthesize", "play"}
       /\ Count(trace', "synth") = 0 /\ Count(trace', "play") = 0
       /\ pc' = "none"
       /\ state' = LISTENING_FOR_WAKE_WORD
       /\ targetCharacter' = NoChar]_vars

\* C39 happens: a turn received an increment, all of them empty, then the end
\* marker, and is over without synthesis
C39_Witness ==
  /\ pc = "none"
  /\ Count(trace, "chunk") >= 1
  /\ Count(trace, "end") = 1
  /\ Count(trace, "synth") = 0
  /\ state = LISTENING_FOR_WAKE_WORD

\* C40: for PorcupineWakeWord, CheetahSTT and PvRecorderInput, once stop() was
\* called on an engine handle, running stays false and neither the engine nor the
\* callback is called, whatever start(), processAudio or the read loop do, until
\* release() and start() have made a new handle.
C40_StopIsNotUndone ==
  [][\A c \in Components :
       (handles[c].stopped /\ handles'[c].handle = handles[c].handle) =>
         /\ ~handles'[c].running
         /\ handles'[c].invoked = handles[c].invoked
         /\ handles'[c].delivered = handles[c].delivered]_vars

\* C40 happens: each of the three was started, has called its engine and
\* delivered, and was stopped; the handle is still there
C40_Witness ==
  \A c \in Components :
    /\ handles[c].stopped
    /\ handles[c].handle # 0
    /\ handles[c].invoked > 0
    /\ handles[c].delivered > 0

============================================================================
